---- MODULE Spec2Model ----
(***************************************************************************)
(* MemeSeer: the position lifecycle sweep (portfolio/portfolio.py), the    *)
(* flywheel accounting (economy/__init__.py) and the launch cycle          *)
(* (main.py), as one state machine over the in-memory "memory" document,   *)
(* its persisted copy and the trade-execution collaborator.                *)
(*                                                                         *)
(* Floats are fixed-point integers:                                        *)
(*   MON / SEER amounts   in units of 1/MonScale                           *)
(*   percentages          in units of 1/PctScale percent                   *)
(*   multiples and ROI    in units of 1/MultScale (the code rounds them    *)
(*                        to 4 decimals)                                   *)
(*   fractions (sell_frac, buyback_pct, ...) in hundredths                 *)
(* Time is counted in days (the code compares differences of epoch         *)
(* seconds against 4 days, 48 hours and 24 hours).                         *)
(***************************************************************************)
EXTENDS Integers, Sequences, FiniteSets, TLC

VARIABLES
    cycles,     \* cycles started so far
    memory,     \* the in-memory document `memory` of the running process
    disk,       \* the persisted document (memory.json)
    now,        \* wall clock, in days
    env,        \* environment of the process: dry_run flag, quotes on offer
    pc,         \* position of the running cycle
    sw,         \* locals of manage_portfolio (queue, current position, valuation)
    sell,       \* locals of execute_position_sell
    run,        \* locals of main (chosen mode, bucket, edge)
    chain,      \* the trade-execution collaborator: sells submitted and unresolved
    obs         \* observations of the current sweep used to state properties

vars == <<cycles, memory, disk, now, env, pc, sw, sell, run, chain, obs>>

(* Bounds of the model *)

NPos == 2           \* positions in the loaded document
MaxNow == 5         \* last day of the clock
MaxCycles == 2      \* cycles (runs of main) in a behaviour
MaxEvents == 3      \* MEMESEER_MAX_EVENTS, the length the event log is trimmed to
StartDay == 4       \* the day of the first cycle
InitialTokens == 7  \* token_amount of the positions in the loaded document

(* Fixed-point scales *)
MonScale == 10000
PctScale == 100
MultScale == 10000
PctFull == 100 * PctScale

(* Program constants *)
DeadDays == 4               \* days_passed >= 4
BlockDays == 2              \* 48 * 3600 seconds
CloseAtPct == 99            \* sold_pct_total >= 99
MoonbagMinSoldPct == 60     \* sm >= 60
MoonbagMinMultiple == 7     \* current_multiple >= 7.0
TrailingFactorPct == 70     \* TRAILING_FACTOR = 0.7
TrailingStepPct == 95       \* last * 0.95
LadderFracPct == 20         \* execute_position_sell(pos, 0.2, "ladder_hit")
DeadFracPct == 15           \* execute_position_sell(pos, 0.15, "dead_exit_step")
TrailFracPct == 20          \* execute_position_sell(pos, 0.20, "moonbag_trailing_sell")
SweepBuybackPct == 50       \* apply_flywheel(..., buyback_pct=0.5, ...)
LossStreakLimit == 3        \* guard["loss_streak"] >= 3

NoMultiple == 0 - 1         \* last_trailing_sell_multiple = None
NoPos == 0

ManagedStatuses == {"EARLY", "ACTIVE", "EXITING", "MOON_BAG"}
OpenStatuses == {"EARLY", "ACTIVE", "EXITING"}
LadderTargets == <<1, 3, 6>>
LadderKeys == <<100, 300, 600>>

(* Arithmetic helpers *)

Max(a, b) == IF a >= b THEN a ELSE b
Min(a, b) == IF a <= b THEN a ELSE b
Clamp(x, lo, hi) == Max(lo, Min(hi, x))

\* a / b rounded to the nearest unit, for a >= 0 and b > 0
RoundDiv(a, b) == (a + (b \div 2)) \div b

\* x * pct/100, truncated to the unit (products of floats, at the resolution kept)
Frac(x, pct) == (x * pct) \div 100

(* Event log *)

AppendEventTo(evs, e) ==
    LET s == Append(evs, e)
    IN  IF Len(s) > MaxEvents THEN SubSeq(s, Len(s) - MaxEvents + 1, Len(s)) ELSE s

Ev(type, p) == [type |-> type, pos |-> p]

append_event(m, e) == [m EXCEPT !.events = AppendEventTo(@, e)]


(* Economy (economy/__init__.py) *)

\* eco.setdefault("params", {...}) with the values bootstrap_economy_if_needed sets
DefaultParams ==
    [ min_seer_to_live       |-> 1 * MonScale,
      mon_per_launch         |-> 5 * MonScale,
      max_seer_sell_frac     |-> 25,
      treasury_pct_of_profit |-> 30,
      min_operating_mon      |-> 5 * MonScale,
      sell_frac_scale_bad    |-> 25,
      sell_frac_scale_neutral |-> 60,
      sell_frac_scale_good   |-> 100 ]

ZeroStats ==
    [ seer_sold_total |-> 0, buyback_mon_total |-> 0,
      seer_bought_total |-> 0, seer_burned_total |-> 0 ]

\* max(1e-9, p): the price is at least one unit of resolution
get_mock_seer_price_mon(eco) == Max(1, eco.seer_price_mon)

\* A faulty budget that ignores the operating reserve
BuybackBudget_Uncapped(buyback_budget_raw, operating_mon, min_operating) ==
    buyback_budget_raw

\* "Protect operating reserve": the budget capped by what exceeds the reserve
BuybackBudget(buyback_budget_raw, operating_mon, min_operating) ==
    LET max_buyback == Max(0, operating_mon - min_operating)
    IN  Min(buyback_budget_raw, max_buyback)

\* The dict apply_flywheel returns, with the balances it writes.
\* pct arguments are in hundredths (0.5 -> 50); burn_pct is clamped and unused.
FlywheelResult(eco, payout_in, stake_in, buyback_in, burn_in) ==
    LET price == get_mock_seer_price_mon(eco)
        payout_mon == Max(0, payout_in)
        stake_mon == Max(0, stake_in)
        mon_before == eco.balances.mon
        operating_mon == mon_before + payout_mon
        profit == Max(0, payout_mon - stake_mon)
        treasury_pct == Clamp(eco.params.treasury_pct_of_profit, 0, 100)
        treasury_take == Frac(profit, treasury_pct)
        profit_after_treasury == profit - treasury_take
        buyback_pct == Clamp(buyback_in, 0, 100)
        burn_pct == Clamp(burn_in, 0, 5)
        buyback_budget_raw == Frac(profit_after_treasury, buyback_pct)
        min_operating == eco.params.min_operating_mon
        buyback_budget == BuybackBudget(buyback_budget_raw, operating_mon, min_operating)
        executes == buyback_budget > 0 /\ price > 0
        bought_seer == IF executes THEN (buyback_budget * MonScale) \div price ELSE 0
    IN  [ payout_mon |-> payout_mon, stake_mon |-> stake_mon, profit |-> profit,
          treasury_take |-> treasury_take,
          profit_after_treasury |-> profit_after_treasury,
          buyback_budget_raw |-> buyback_budget_raw,
          buyback_budget |-> buyback_budget, bought_seer |-> bought_seer,
          mon_before |-> mon_before, mon_credited |-> operating_mon,
          mon_after |-> IF executes THEN operating_mon - buyback_budget ELSE operating_mon,
          seer_after |-> eco.balances.seer + bought_seer,
          min_operating |-> min_operating,
          buyback_pct |-> buyback_pct, burn_pct |-> burn_pct ]

\* A faulty update that keeps the treasury share in the operating balance
FlywheelEco_NoTreasury(eco, r) ==
    [eco EXCEPT !.balances.mon = r.mon_after,
                !.balances.seer = r.seer_after,
                !.stats.buyback_mon_total = @ + r.buyback_budget,
                !.stats.seer_bought_total = @ + r.bought_seer]

\* The economy record after apply_flywheel
FlywheelEco(eco, r) ==
    [eco EXCEPT !.balances.mon = r.mon_after,
                !.balances.seer = r.seer_after,
                !.treasury_mon = @ + r.treasury_take,
                !.stats.buyback_mon_total = @ + r.buyback_budget,
                !.stats.seer_bought_total = @ + r.bought_seer]

\* A faulty flywheel that burns burn_pct of the SEER it bought
apply_flywheel_Burning(m, payout_mon, stake_mon, buyback_pct, burn_pct) ==
    LET r == FlywheelResult(m.economy, payout_mon, stake_mon, buyback_pct, burn_pct)
        burned == Frac(r.bought_seer, r.burn_pct)
    IN  [m EXCEPT !.economy = [FlywheelEco(@, r) EXCEPT
                                  !.balances.seer = @ - burned,
                                  !.balances.seer_burned = @ + burned,
                                  !.stats.seer_burned_total = @ + burned]]

apply_flywheel(m, payout_mon, stake_mon, buyback_pct, burn_pct) ==
    [m EXCEPT !.economy =
        FlywheelEco(@, FlywheelResult(@, payout_mon, stake_mon, buyback_pct, burn_pct))]

\* "Legacy wrapper": stake 0 and burn_pct 0.0, whatever burn_pct it is given
apply_payout_and_policy(m, payout_mon, buyback_pct, burn_pct) ==
    apply_flywheel(m, payout_mon, 0, buyback_pct, 0)

\* A faulty scale that ignores the bucket
SellFracScale_Neutral(params, bucket) == params.sell_frac_scale_neutral

\* The scale of the sell cap for a bucket, in hundredths
SellFracScale(params, bucket) ==
    IF bucket = "bad" THEN params.sell_frac_scale_bad
    ELSE IF bucket = "good" THEN params.sell_frac_scale_good
    ELSE params.sell_frac_scale_neutral

\* The dict fund_launch_by_selling_seer returns.  max_sell_frac is a product of
\* two hundredths
FundResult(eco, bucket) ==
    LET bal == eco.balances
        price == get_mock_seer_price_mon(eco)
        mon_needed == eco.params.mon_per_launch
        scale == SellFracScale(eco.params, bucket)
        max_sell_frac == eco.params.max_seer_sell_frac * scale
        mon_gap == mon_needed - bal.mon
        seer_required == (mon_gap * MonScale) \div price
        unit == 100 * 100
        capped == Clamp(max_sell_frac, 0, unit)
        \* bal.seer * capped / unit, the whole units of bal.seer first
        seer_cap == (bal.seer \div unit) * capped + ((bal.seer % unit) * capped) \div unit
        sold_seer == Min(seer_required, seer_cap)
        got_mon == (sold_seer * price) \div MonScale
    IN  IF bal.mon >= mon_needed
        THEN [sold_seer |-> 0, got_mon |-> 0, note |-> "already_funded"]
        ELSE [sold_seer |-> sold_seer, got_mon |-> got_mon,
              note |-> "sold_seer_for_funding"]

fund_launch_by_selling_seer(m, bucket) ==
    LET r == FundResult(m.economy, bucket)
    IN  IF r.note = "already_funded" THEN m
        ELSE [m EXCEPT !.economy.balances.seer = @ - r.sold_seer,
                       !.economy.balances.mon = @ + r.got_mon,
                       !.economy.stats.seer_sold_total = @ + r.sold_seer]

\* A faulty spend that does not look at the balance
spend_mon_for_launch_Unchecked(m) ==
    [m EXCEPT !.economy.balances.mon = @ - m.economy.params.mon_per_launch]

spend_mon_for_launch(m) ==
    IF m.economy.balances.mon < m.economy.params.mon_per_launch THEN m
    ELSE [m EXCEPT !.economy.balances.mon = @ - m.economy.params.mon_per_launch]

(* Positions (portfolio/portfolio.py) *)

NoMoonbag == [present |-> FALSE, ath_multiple |-> 0,
              last_trailing_sell_multiple |-> NoMultiple, activated_timestamp |-> 0]

\* A position record; keys the code reads with a default carry that default.
Position(status, token_amount, sold, hits, mb, ts) ==
    [ status |-> status, token_amount |-> token_amount, sold_pct_total |-> sold,
      ladder_hits |-> hits, moonbag |-> mb, tx_pending |-> FALSE,
      timestamp |-> ts, entry_cost_mon |-> 1 * MonScale, valuation |-> 0 ]

\* current_multiple of the main loop, rounded to 4 decimals
\* ((value / denominator) / entry_cost, with denominator = 1 - sold_pct/100)
CurrentMultiple(current_value_mon, sold_pct, entry_cost) ==
    LET denominator == PctFull - sold_pct
    IN  IF denominator <= 0 THEN 0
        ELSE IF entry_cost > 0
             THEN RoundDiv(RoundDiv(current_value_mon * MultScale, entry_cost) * PctFull,
                           denominator)
             ELSE 0

\* A faulty amount that is never less than one token
SellAmount_AtLeastOne(token_amount, frac_pct) ==
    Max(1, (token_amount * frac_pct) \div 100)

\* sell_amount = int(token_amount * sell_frac)
SellAmount(token_amount, frac_pct) == (token_amount * frac_pct) \div 100

\* A faulty update that adds sell_frac of the whole position, not of the remainder
SoldPctAfter_OfWhole(current_sold_pct, frac_pct) ==
    current_sold_pct + Frac(PctFull, frac_pct)

\* sold_pct_total after a confirmed sell of sell_frac of the remainder
SoldPctAfter(current_sold_pct, frac_pct) ==
    LET remaining_pct == PctFull - current_sold_pct
        added_pct == Frac(remaining_pct, frac_pct)
    IN  current_sold_pct + added_pct

\* payout_estimated = _current_valuation_mon * sell_frac
PayoutEstimated(p, frac_pct) == Frac(p.valuation, frac_pct)

\* A faulty save that leaves the file as it is
save_mem_Skipped(m) == disk

\* save_mem(): the file holds the whole memory document
save_mem(m) == m

\* The guard of execute_position_sell: no sell while one is pending
SellBlocked(p) == p.tx_pending

\* A faulty marking that leaves tx_pending as it was
MarkPending_Unmarked(m, i) == m

\* "Mark as pending" (the save follows in the action)
MarkPending(m, i) == [m EXCEPT !.pos[i].tx_pending = TRUE]

\* "SUCCESS - Commit changes": flywheel, position update, event
SellCommit(m, i, frac_pct, token_amount, sell_amount, event_type) ==
    LET m1 == apply_flywheel(m, PayoutEstimated(m.pos[i], frac_pct), 0, SweepBuybackPct, 0)
        m2 == [m1 EXCEPT !.pos[i].token_amount = token_amount - sell_amount,
                         !.pos[i].sold_pct_total = SoldPctAfter(@, frac_pct),
                         !.pos[i].tx_pending = FALSE]
    IN  append_event(m2, Ev(event_type, i))

\* A faulty failure path that pays the flywheel although nothing was sold
SellFail_Paying(m, i) ==
    append_event([apply_flywheel(m, PayoutEstimated(m.pos[i], LadderFracPct), 0,
                                 SweepBuybackPct, 0)
                      EXCEPT !.pos[i].tx_pending = FALSE],
                 Ev("sell_failed", i))

\* A faulty failure path that drops the tokens of the failed sell
SellFail_Selling(m, i) ==
    append_event([m EXCEPT !.pos[i].tx_pending = FALSE,
                           !.pos[i].token_amount = @ - 1],
                 Ev("sell_failed", i))

\* The two failure paths: receipt missing or status != 1, and any exception
SellFail(m, i) ==
    append_event([m EXCEPT !.pos[i].tx_pending = FALSE], Ev("sell_failed", i))

\* hit_key in pos.get("ladder_hits", []) and roi >= target
LadderDue(p, roi, k) ==
    roi >= LadderTargets[k] * MultScale /\ LadderKeys[k] \notin p.ladder_hits

\* A faulty dead rule that forgets the ladder hits
DeadDue_AnyHits(p, current_ts) == (current_ts - p.timestamp) >= DeadDays

\* days_passed >= 4 and not pos.get("ladder_hits")
DeadDue(p, current_ts) ==
    (current_ts - p.timestamp) >= DeadDays /\ p.ladder_hits = {}

\* A faulty check that forgets how much was sold
MoonbagDue_AnySold(p, current_multiple) ==
    /\ p.status = "ACTIVE"
    /\ {100, 300, 600} \subseteq p.ladder_hits
    /\ current_multiple >= MoonbagMinMultiple * MultScale

\* the MOON_BAG transition check
MoonbagDue(p, current_multiple) ==
    /\ p.status = "ACTIVE"
    /\ {100, 300, 600} \subseteq p.ladder_hits
    /\ p.sold_pct_total >= MoonbagMinSoldPct * PctScale
    /\ current_multiple >= MoonbagMinMultiple * MultScale

\* "Update ATH" on the moonbag dict
AthAfter(mb, current_multiple) ==
    IF current_multiple > mb.ath_multiple THEN current_multiple ELSE mb.ath_multiple

\* the trailing-exit trigger, on the updated ath
TrailingDue(ath, last, current_multiple) ==
    LET threshold == RoundDiv(ath * TrailingFactorPct, 100)
    IN  /\ current_multiple < threshold
        /\ \/ last = NoMultiple
           \/ current_multiple < RoundDiv(last * TrailingStepPct, 100)

\* sold_pct_total >= 99
CloseDue(p) == p.sold_pct_total >= CloseAtPct * PctScale

RemoveFirst(s, x) ==
    IF \E j \in 1..Len(s) : s[j] = x
    THEN LET j == CHOOSE j \in 1..Len(s) : s[j] = x /\ \A h \in 1..(j-1) : s[h] # x
         IN  SubSeq(s, 1, j - 1) \o SubSeq(s, j + 1, Len(s))
    ELSE s

InSeq(s, x) == \E j \in 1..Len(s) : s[j] = x

\* A faulty bookkeeping that never resets the streak
GuardAfterClose_NoReset(guard, roi, current_ts) ==
    LET streak == guard.loss_streak + 1
    IN  [guard EXCEPT !.loss_streak = streak,
                      !.launch_blocked_until =
                          IF streak >= LossStreakLimit THEN current_ts + BlockDays ELSE @]

\* The loss-streak bookkeeping of the close condition
GuardAfterClose(guard, roi, current_ts) ==
    LET streak == IF roi < 0 THEN guard.loss_streak + 1 ELSE 0
    IN  [guard EXCEPT !.loss_streak = streak,
                      !.launch_blocked_until =
                          IF streak >= LossStreakLimit THEN current_ts + BlockDays ELSE @]

\* A faulty closure that leaves the position in active_positions
ClosePosition_Kept(m, i, roi, current_ts) ==
    LET m1 == [m EXCEPT !.pos[i].status = "CLOSED"]
        m3 == [m1 EXCEPT !.closed_positions = IF InSeq(@, i) THEN @ ELSE Append(@, i)]
    IN  append_event(m3, Ev("position_closed", i))

\* A faulty closure that resets the valuation of the positions closed before
ClosePosition_Restamped(m, i, roi, current_ts) ==
    LET g == GuardAfterClose(m.core_guard, roi, current_ts)
        m1 == [m EXCEPT !.pos[i].status = "CLOSED", !.core_guard = g]
        m2 == IF g.loss_streak >= LossStreakLimit
              THEN append_event(m1, Ev("core_guard_blocked_loss_streak", i)) ELSE m1
        m3 == [m2 EXCEPT !.closed_positions = IF InSeq(@, i) THEN @ ELSE Append(@, i),
                         !.active_positions = RemoveFirst(@, i),
                         !.pos = [j \in DOMAIN @ |->
                                     IF m.pos[j].status = "CLOSED"
                                     THEN [@[j] EXCEPT !.valuation = 0] ELSE @[j]]]
    IN  append_event(m3, Ev("position_closed", i))

\* The close condition's effect on the document
ClosePosition(m, i, roi, current_ts) ==
    LET g == GuardAfterClose(m.core_guard, roi, current_ts)
        m1 == [m EXCEPT !.pos[i].status = "CLOSED", !.core_guard = g]
        m2 == IF g.loss_streak >= LossStreakLimit
              THEN append_event(m1, Ev("core_guard_blocked_loss_streak", i)) ELSE m1
        m3 == [m2 EXCEPT !.closed_positions = IF InSeq(@, i) THEN @ ELSE Append(@, i),
                         !.active_positions = RemoveFirst(@, i)]
    IN  append_event(m3, Ev("position_closed", i))

(* Policy (policy/__init__.py): rewards, means and scores in units of 1/MultScale *)

DEFAULT_MODES ==
    <<"conservative", "balanced", "growth", "signal", "aggressive", "no_launch">>

Buckets == {"bad", "neutral", "good"}

UCB_INF_CAP == 1000000000

\* A faulty discretisation that puts the boundary values into bad and good
get_bucket_Inclusive(edge) ==
    IF 5 * edge <= 0 - MultScale THEN "bad"
    ELSE IF 5 * edge >= MultScale THEN "good"
    ELSE "neutral"

\* edge < -0.2 -> bad, edge > 0.2 -> good, neutral otherwise
get_bucket(edge) ==
    IF 5 * edge < 0 - MultScale THEN "bad"
    ELSE IF 5 * edge > MultScale THEN "good"
    ELSE "neutral"

\* ensure_learning_state on a document without learning state
SeededBandit ==
    [b \in Buckets |->
        [md \in {DEFAULT_MODES[k] : k \in 1..Len(DEFAULT_MODES)} |->
            [n |-> 0, mean_reward |-> 0]]]

\* c * sqrt(log(max(2, t)) / n) with c = 1.5, for t in 1..16 and n in 1..8,
\* rounded to the unit
UcbBonus ==
    << <<12488, 8831, 7210, 6244, 5585, 5098, 4720, 4415>>,
       <<12488, 8831, 7210, 6244, 5585, 5098, 4720, 4415>>,
       <<15722, 11117, 9077, 7861, 7031, 6419, 5942, 5559>>,
       <<17661, 12488, 10197, 8831, 7898, 7210, 6675, 6244>>,
       <<19030, 13456, 10987, 9515, 8510, 7769, 7192, 6728>>,
       <<20078, 14198, 11592, 10039, 8979, 8197, 7589, 7099>>,
       <<20924, 14796, 12081, 10462, 9358, 8542, 7909, 7398>>,
       <<21630, 15295, 12488, 10815, 9673, 8831, 8176, 7648>>,
       <<22235, 15722, 12837, 11117, 9944, 9077, 8404, 7861>>,
       <<22761, 16095, 13141, 11381, 10179, 9292, 8603, 8047>>,
       <<23228, 16424, 13411, 11614, 10388, 9483, 8779, 8212>>,
       <<23645, 16720, 13652, 11823, 10575, 9653, 8937, 8360>>,
       <<24023, 16987, 13870, 12012, 10743, 9807, 9080, 8493>>,
       <<24368, 17231, 14069, 12184, 10898, 9948, 9210, 8615>>,
       <<24684, 17454, 14251, 12342, 11039, 10077, 9330, 8727>>,
       <<24977, 17661, 14420, 12488, 11170, 10197, 9440, 8831>> >>

\* A faulty score that treats an untried mode like one tried once
_ucb_score_Uncapped(mean, n, t) ==
    LET s == mean + UcbBonus[t][Max(n, 1)]
    IN  [whole |-> s \div MultScale, part |-> s % MultScale]

\* A score as whole units and 1/MultScale parts, so that the cap keeps its value
_ucb_score(mean, n, t) ==
    IF n <= 0 THEN [whole |-> UCB_INF_CAP, part |-> 0]
    ELSE LET s == mean + UcbBonus[t][n]
         IN  [whole |-> s \div MultScale, part |-> s % MultScale]

ScoreGreater(a, b) ==
    a.whole > b.whole \/ (a.whole = b.whole /\ a.part > b.part)

\* t = total pulls in the bucket + 1
BucketPulls(modes_stats) ==
    LET RECURSIVE Sum(_)
        Sum(k) == IF k = 0 THEN 0 ELSE modes_stats[DEFAULT_MODES[k]].n + Sum(k - 1)
    IN  Sum(Len(DEFAULT_MODES))

\* A faulty loop in which an equal score replaces the best so far
BestMode_LastWins(modes_stats, t) ==
    LET Score(k) == _ucb_score(modes_stats[DEFAULT_MODES[k]].mean_reward,
                               modes_stats[DEFAULT_MODES[k]].n, t)
        RECURSIVE Best(_)
        Best(k) == IF k = 1 THEN 1
                   ELSE LET b == Best(k - 1)
                        IN  IF ScoreGreater(Score(b), Score(k)) THEN b ELSE k
    IN  DEFAULT_MODES[Best(Len(DEFAULT_MODES))]

\* the loop of select_mode over the modes in iteration order: a strictly greater
\* score replaces the best so far (the first score replaces -1e18)
BestMode(modes_stats, t) ==
    LET Score(k) == _ucb_score(modes_stats[DEFAULT_MODES[k]].mean_reward,
                               modes_stats[DEFAULT_MODES[k]].n, t)
        RECURSIVE Best(_)
        Best(k) == IF k = 1 THEN 1
                   ELSE LET b == Best(k - 1)
                        IN  IF ScoreGreater(Score(k), Score(b)) THEN k ELSE b
    IN  DEFAULT_MODES[Best(Len(DEFAULT_MODES))]

select_mode(m, edge) ==
    LET bucket_name == get_bucket(edge)
        modes_stats == m.learning.bandit[bucket_name]
        t == BucketPulls(modes_stats) + 1
    IN  [mode |-> BestMode(modes_stats, t), bucket |-> bucket_name, edge |-> edge]

\* floor(a / b + 1/2) for b > 0
RoundDivSigned(a, b) == (2 * a + b) \div (2 * b)

\* A faulty update that counts the pull for every mode of the bucket
update_bandit_Bucketwide(m, bucket, mode, reward) ==
    [m EXCEPT !.learning.bandit[bucket] =
        [md \in DOMAIN @ |-> [n |-> @[md].n + 1,
                              mean_reward |-> IF md = mode THEN reward
                                              ELSE @[md].mean_reward]]]

\* A faulty update that smooths with a fixed rate of one half
update_bandit_Smoothed(m, bucket, mode, reward) ==
    LET st == m.learning.bandit[bucket][mode]
        mean == st.mean_reward + RoundDivSigned(reward - st.mean_reward, 2)
    IN  [m EXCEPT !.learning.bandit[bucket][mode] =
                      [n |-> st.n + 1, mean_reward |-> mean]]

\* update_bandit: one more pull and the incremental mean, rounded
update_bandit(m, bucket, mode, reward) ==
    LET st == m.learning.bandit[bucket][mode]
        n == st.n + 1
        mean == st.mean_reward + RoundDivSigned(reward - st.mean_reward, n)
    IN  [m EXCEPT !.learning.bandit[bucket][mode] = [n |-> n, mean_reward |-> mean]]

\* The action cost of compute_reward: 0.01 + factor * max(0, -edge), with the
\* factor in hundredths and edge and cost in 1/MultScale
ActionCost(factor, edge) ==
    LET base_cost == MultScale \div 100
        neg_factor == Max(0, 0 - edge)
    IN  base_cost + RoundDiv(factor * neg_factor, 100)

\* A faulty reward with the cost factor 0.20 of the docstring
compute_reward_DocCost(payout, stake, mode, edge) ==
    IF mode = "no_launch" THEN 0
    ELSE IF stake <= 0 THEN 0
    ELSE RoundDivSigned((payout - stake) * MultScale, stake) - ActionCost(20, edge)

\* compute_reward(payout, stake, mode, bucket, edge); bucket is not read.
\* payout and stake in 1/MonScale, edge and the reward in 1/MultScale
compute_reward(payout, stake, mode, edge) ==
    IF mode = "no_launch" THEN 0
    ELSE IF stake <= 0 THEN 0
    ELSE LET roi == RoundDivSigned((payout - stake) * MultScale, stake)
             cost == ActionCost(80, edge)
         IN  roi - cost

(* Launch gating helpers (main.py, economy/__init__.py) *)

MAX_ACTIVE_POSITIONS == 3
HoursPerDay == 24
RitualCooldownHours == 6        \* RITUAL_COOLDOWN_SECONDS = 6 * 60 * 60
LaunchCooldownDays == 1         \* cooldown_period = 86400
NoTimestamp == 0 - 1            \* last_ritual_post_ts = None
DEFAULT_SEER_INITIAL == 1000

\* A faulty gate that lets every balance pass
can_launch_Always(m) == TRUE

\* bal.seer < min_seer_to_live -> not ok
can_launch(m) == m.economy.balances.seer >= m.economy.params.min_seer_to_live

\* the positions whose status is EARLY, ACTIVE or EXITING
get_blocking_positions(m) ==
    {j \in 1..Len(m.active_positions) :
         m.pos[m.active_positions[j]].status \in OpenStatuses}

\* counts p.get("status") == "active"
get_active_position_count(m) ==
    Cardinality({j \in 1..Len(m.active_positions) :
                     m.pos[m.active_positions[j]].status = "active"})

is_rate_limited(m, t) ==
    LET last == m.social.last_ritual_post_ts
    IN  IF last = NoTimestamp THEN FALSE
        ELSE (t - last) * HoursPerDay < RitualCooldownHours

bootstrap_economy_if_needed(m) ==
    LET b == m.economy.balances
        m1 == IF b.seer = 0 /\ b.mon = 0
              THEN [m EXCEPT !.economy.balances =
                        [seer |-> DEFAULT_SEER_INITIAL * MonScale, mon |-> 0,
                         seer_burned |-> 0]]
              ELSE m
    IN  [m1 EXCEPT !.economy.seer_price_mon = 1 * MonScale,
                   !.economy.params.mon_per_launch = 5 * MonScale,
                   !.economy.params.max_seer_sell_frac = 25]

(* The loaded document *)

\* Values the execution collaborator quotes for a whole remaining position (MON)
Quotes == {MonScale \div 100, 2 * MonScale, 7 * MonScale}

\* Position records of the document a cycle loads: fresh ones, one after two
\* ladder sells (20% and 20% of the rest: 36% sold), one two ladder steps up
\* that sold about half, one that is nearly sold out.
NearlySoldOut == Position("EXITING", InitialTokens, 9890, {}, NoMoonbag, 0)

TwoLadderSells == Position("ACTIVE", InitialTokens, 36 * PctScale, {100, 300}, NoMoonbag, 1)

\* A position that became MOON_BAG at multiple 10.0 with 61.6% sold
TrailingMoonbag ==
    Position("MOON_BAG", InitialTokens, 6160, {100, 300, 600},
             [present |-> TRUE, ath_multiple |-> 10 * MultScale,
              last_trailing_sell_multiple |-> NoMultiple, activated_timestamp |-> 1], 1)

\* A position after three ladder sells (48.8% sold): no rule has a sell for it
ThreeLadderSells ==
    Position("ACTIVE", InitialTokens, 4880, {100, 300, 600}, NoMoonbag, 1)

\* A position that sold 68% and has the last ladder step ahead, under either of
\* the two labels of an open position
Twin(status) == Position(status, InitialTokens, 68 * PctScale, {100, 300}, NoMoonbag, 1)

\* Quotes for it: 2 MON, then 1.6 MON for the 80% left after a 20% sell (the
\* same price), and 7 MON
MoonbagQuotes == {2 * MonScale, (16 * MonScale) \div 10, 7 * MonScale}

InitialPositions ==
    { Position(st, InitialTokens, 0, {}, NoMoonbag, ts) :
          st \in {"EARLY", "ACTIVE"}, ts \in {0, 1} }
    \cup { Position("ACTIVE", InitialTokens, 52 * PctScale, {100, 300}, NoMoonbag, 1),
           TwoLadderSells, NearlySoldOut }

\* Portfolios of one position of any kind, and of NPos that are nearly sold out
InitialPortfolios ==
    { <<p>> : p \in InitialPositions } \cup { [i \in 1..NPos |-> NearlySoldOut] }

InitialEconomy ==
    [ balances |-> [seer |-> 1000 * MonScale, mon |-> 4 * MonScale, seer_burned |-> 0],
      treasury_mon |-> 0,
      stats |-> ZeroStats,
      params |-> DefaultParams,
      seer_price_mon |-> 1 * MonScale ]

\* A bandit table after five gated cycles per bucket: only no_launch is untried
ExperiencedBandit ==
    [b \in Buckets |->
        [md \in DOMAIN SeededBandit[b] |->
            [n |-> IF md = "no_launch" THEN 0 ELSE 1, mean_reward |-> 0]]]

\* ensure_memory, ensure_economy_state and ensure_learning_state around a portfolio
InitialDocument(positions, streak, bandit, kill_switch) ==
    [ pos |-> positions,
      active_positions |-> [i \in 1..Len(positions) |-> i],
      closed_positions |-> << >>,
      economy |-> InitialEconomy,
      core_guard |-> [loss_streak |-> streak, launch_blocked_until |-> 0],
      launch_control |-> [last_launch_timestamp |-> 0, launch_in_progress |-> FALSE],
      learning |-> [bandit |-> bandit, last_balances |-> << >>],
      world |-> [edge |-> 0],
      social |-> [last_ritual_post_ts |-> NoTimestamp],
      launches |-> << >>,
      stats |-> [ritual_posts_total |-> 0],
      system |-> [kill_switch |-> kill_switch],
      events |-> << >> ]

\* Documents a first cycle may load
InitialDocuments ==
    { InitialDocument(positions, 0, SeededBandit, FALSE) :
          positions \in InitialPortfolios }
    \cup { InitialDocument([i \in 1..n |-> NearlySoldOut], 2, SeededBandit, FALSE) :
              n \in 1..NPos }
    \cup { InitialDocument(<<NearlySoldOut>>, 0, ExperiencedBandit, FALSE),
           InitialDocument(<<NearlySoldOut>>, 0, SeededBandit, TRUE) }

\* Edges observe() computes from the world feed (one feed per behaviour)
Edges == {0 - 3000, 0, 3000}

\* Environments of a behaviour: every document under a neutral feed, live or dry;
\* the smallest portfolio under the other feeds
Scenarios ==
    { <<d, [dry_run |-> dr, quotes |-> Quotes, edge |-> 0]>> :
          d \in InitialDocuments, dr \in BOOLEAN }
    \cup { <<InitialDocument(<<NearlySoldOut>>, 0, bandit, FALSE),
             [dry_run |-> FALSE, quotes |-> Quotes, edge |-> e]>> :
              bandit \in {SeededBandit, ExperiencedBandit}, e \in Edges \ {0} }
    \cup { <<InitialDocument(<<TrailingMoonbag>>, 0, SeededBandit, FALSE),
             [dry_run |-> dr, quotes |-> MoonbagQuotes, edge |-> 0]>> : dr \in BOOLEAN }
    \* a SEER balance below min_seer_to_live
    \cup { <<[InitialDocument(<<NearlySoldOut>>, 0, SeededBandit, FALSE)
                 EXCEPT !.economy.balances.seer = MonScale \div 2],
             [dry_run |-> dr, quotes |-> Quotes, edge |-> 0]>> : dr \in BOOLEAN }
    \* MAX_ACTIVE_POSITIONS open positions with nothing to sell
    \cup { <<InitialDocument([i \in 1..MAX_ACTIVE_POSITIONS |-> ThreeLadderSells],
                             0, SeededBandit, FALSE),
             [dry_run |-> TRUE, quotes |-> {2 * MonScale}, edge |-> 0]>> }
    \* two positions that differ in the label only
    \cup { <<InitialDocument(<<Twin("EARLY"), Twin("ACTIVE")>>, 0, SeededBandit, FALSE),
             [dry_run |-> TRUE, quotes |-> Quotes, edge |-> 0]>> }

NoRun == [mode |-> "none", bucket |-> "none", edge |-> 0]

NoSweep == [queue |-> << >>, cur |-> NoPos, ts |-> 0, status |-> "none",
            current_multiple |-> 0, roi |-> 0, k |-> 0]

NoSell == [frac |-> 0, event_type |-> "none", token_amount |-> 0,
           sell_amount |-> 0, result |-> "none"]

\* Observations of one position's iteration
NoIteration ==
    [ pre |-> Position("none", 0, 0, {}, NoMoonbag, 0),   \* position before the rule at work
      start |-> Position("none", 0, 0, {}, NoMoonbag, 0), \* position when it was valued
      ladder |-> << >>,      \* ladder sells that reached the collaborator or dry run
      dead_fired |-> FALSE,  \* the dead-position rule called execute_position_sell
      sells |-> << >> ]      \* every execute_position_sell call: <<frac, result>>

Init ==
    /\ \E sc \in Scenarios : memory = sc[1] /\ env = sc[2]
    /\ disk = memory
    /\ cycles = 0
    /\ now = StartDay
    /\ pc = "idle"
    /\ sw = NoSweep
    /\ sell = NoSell
    /\ run = NoRun
    /\ chain = [inflight |-> [i \in 1..Len(memory.pos) |-> 0], launches |-> 0]
    /\ obs = [ eco0 |-> memory.economy, eco_expected |-> memory.economy,
               confirmed |-> 0, failed |-> 0, valued |-> {}, it |-> NoIteration,
               trailed |-> {},    \* <<position, multiple>> of its last confirmed trailing sell
               swept |-> << >> ]  \* the positions as the sweep at work found them

(* manage_portfolio *)

Cur == memory.pos[sw.cur]

\* main(): load_memory at the start of a cycle, for behaviours of up to limit cycles
BeginCycle(limit) ==
    /\ pc = "idle" /\ cycles < limit
    /\ ~disk.system.kill_switch
    /\ cycles' = cycles + 1
    /\ memory' = bootstrap_economy_if_needed(disk)
    /\ pc' = "manage"
    /\ UNCHANGED <<disk, now, env, sw, sell, run, chain, obs>>

StartCycle == BeginCycle(MaxCycles)

\* manage_portfolio up to the loop: nothing to do without positions
StartSweep ==
    /\ pc = "manage"
    /\ IF memory.active_positions = << >>
       THEN pc' = "policy" /\ UNCHANGED sw
       ELSE /\ pc' = "sweep"
            /\ sw' = [NoSweep EXCEPT !.queue = memory.active_positions, !.ts = now]
    /\ obs' = [obs EXCEPT !.eco0 = memory.economy, !.eco_expected = memory.economy,
                          !.confirmed = 0, !.failed = 0, !.valued = {},
                          !.it = NoIteration,
                          !.swept = IF memory.active_positions = << >> THEN << >>
                                    ELSE memory.pos]
    /\ UNCHANGED <<cycles, run, memory, disk, now, env, sell, chain>>

\* the loop's `continue`s: unmanaged status, or nothing left to sell
SkipPosition ==
    /\ pc = "sweep" /\ sw.queue # << >>
    /\ LET p == memory.pos[Head(sw.queue)]
       IN  p.status \notin ManagedStatuses \/ p.token_amount <= 0
    /\ sw' = [sw EXCEPT !.queue = Tail(@)]
    /\ UNCHANGED <<cycles, run, memory, disk, now, env, pc, sell, chain, obs>>

\* get_quote raises: the loop's except clause
QuoteFails ==
    /\ pc = "sweep" /\ sw.queue # << >>
    /\ LET i == Head(sw.queue)
           p == memory.pos[i]
       IN  /\ p.status \in ManagedStatuses /\ p.token_amount > 0
           /\ IF p.tx_pending
              THEN /\ memory' = [memory EXCEPT !.pos[i].tx_pending = FALSE]
                   /\ disk' = save_mem(memory')
              ELSE UNCHANGED <<memory, disk>>
    /\ sw' = [sw EXCEPT !.queue = Tail(@)]
    /\ UNCHANGED <<cycles, run, now, env, pc, sell, chain, obs>>

\* get_quote returns: valuation, multiple and ROI of the position
Valuate ==
    /\ pc = "sweep" /\ sw.queue # << >>
    /\ \E current_value_mon \in env.quotes :
        LET i == Head(sw.queue)
            p == memory.pos[i]
            current_multiple ==
                CurrentMultiple(current_value_mon, p.sold_pct_total, p.entry_cost_mon)
        IN  /\ p.status \in ManagedStatuses /\ p.token_amount > 0
            /\ memory' = [memory EXCEPT !.pos[i].valuation = current_value_mon]
            /\ sw' = [sw EXCEPT !.cur = i, !.status = p.status,
                                !.current_multiple = current_multiple,
                                !.roi = current_multiple - MultScale, !.k = 1]
            /\ pc' = IF p.status \in OpenStatuses THEN "ladder" ELSE "trail"
            /\ obs' = [obs EXCEPT !.valued = @ \cup {i},
                                  !.it = [NoIteration EXCEPT !.start = p]]
    /\ UNCHANGED <<cycles, run, disk, now, env, sell, chain>>

ObsConfirmed(o, eco, payout) ==
    [o EXCEPT !.confirmed = @ + 1,
              !.eco_expected = FlywheelEco(eco, FlywheelResult(eco, payout, 0, SweepBuybackPct, 0))]

\* execute_position_sell(pos, sell_frac, event_type) up to its first blocking call,
\* entered with the document m and the observations o of the calling rule
ExecSell(m, i, frac_pct, event_type, o) ==
    LET p == m.pos[i]
        sell_amount == SellAmount(p.token_amount, frac_pct)
        locals == [frac |-> frac_pct, event_type |-> event_type,
                   token_amount |-> p.token_amount, sell_amount |-> sell_amount,
                   result |-> "none"]
    IN  IF SellBlocked(p) \/ sell_amount <= 0
        THEN /\ memory' = m
             /\ sell' = [locals EXCEPT !.result = "skipped"]
             /\ pc' = "ret"
             /\ obs' = o
             /\ UNCHANGED disk
        ELSE IF env.dry_run
        THEN /\ memory' = SellCommit(MarkPending(m, i), i, frac_pct,
                                     p.token_amount, sell_amount, event_type)
             /\ disk' = save_mem(memory')
             /\ sell' = [locals EXCEPT !.result = "confirmed"]
             /\ pc' = "ret"
             /\ obs' = ObsConfirmed(o, m.economy, PayoutEstimated(p, frac_pct))
        ELSE /\ memory' = MarkPending(m, i)
             /\ disk' = save_mem(memory')
             /\ sell' = [locals EXCEPT !.result = "pending"]
             /\ pc' = "submit"
             /\ obs' = o

\* executor.sell returns a transaction hash
SellSent ==
    /\ pc = "submit"
    /\ memory' = append_event(memory, Ev("onchain_sell_sent", sw.cur))
    /\ chain' = [chain EXCEPT !.inflight[sw.cur] = @ + 1]
    /\ pc' = "receipt"
    /\ UNCHANGED <<cycles, run, disk, now, env, sw, sell, obs>>

\* executor.sell raises
SellRaises ==
    /\ pc = "submit"
    /\ memory' = SellFail(memory, sw.cur)
    /\ disk' = save_mem(memory')
    /\ sell' = [sell EXCEPT !.result = "failed"]
    /\ obs' = [obs EXCEPT !.failed = 1]
    /\ pc' = "ret"
    /\ UNCHANGED <<cycles, run, now, env, sw, chain>>

\* wait_for_receipt returns a receipt with status 1
ReceiptConfirmed ==
    /\ pc = "receipt"
    /\ chain' = [chain EXCEPT !.inflight[sw.cur] = @ - 1]
    /\ memory' = SellCommit(memory, sw.cur, sell.frac, sell.token_amount,
                            sell.sell_amount, sell.event_type)
    /\ disk' = save_mem(memory')
    /\ sell' = [sell EXCEPT !.result = "confirmed"]
    /\ obs' = ObsConfirmed(obs, memory.economy, PayoutEstimated(Cur, sell.frac))
    /\ pc' = "ret"
    /\ UNCHANGED <<cycles, run, now, env, sw>>

\* wait_for_receipt returns None or a status other than 1, or raises
ReceiptFails ==
    /\ pc = "receipt"
    /\ \E outcome \in {"none", "status0", "raise"} :
        /\ chain' = [chain EXCEPT !.inflight[sw.cur] = @ - 1]
        /\ memory' = SellFail(memory, sw.cur)
        /\ disk' = save_mem(memory')
        /\ sell' = [sell EXCEPT !.result = "failed"]
        /\ obs' = [obs EXCEPT !.failed = 1]
        /\ pc' = "ret"
    /\ UNCHANGED <<cycles, run, now, env, sw>>

\* the ladder loop at target sw.k
LadderStep ==
    /\ pc = "ladder"
    /\ IF sw.k > Len(LadderTargets)
       THEN pc' = "dead" /\ UNCHANGED <<memory, disk, sw, sell, obs>>
       ELSE IF LadderDue(Cur, sw.roi, sw.k)
       THEN /\ ExecSell(memory, sw.cur, LadderFracPct, "ladder_hit",
                        [obs EXCEPT !.it.pre = Cur])
            /\ UNCHANGED sw
       ELSE /\ sw' = [sw EXCEPT !.k = @ + 1]
            /\ UNCHANGED <<memory, disk, pc, sell, obs>>
    /\ UNCHANGED <<cycles, run, now, env, chain>>

\* A faulty ladder loop that goes on to the next target after a confirmed sell
LadderReturn_NoBreak ==
    /\ pc = "ret" /\ sell.event_type = "ladder_hit"
    /\ memory' = IF sell.result = "confirmed"
                 THEN [memory EXCEPT !.pos[sw.cur].ladder_hits = @ \cup {LadderKeys[sw.k]}]
                 ELSE memory
    /\ sw' = [sw EXCEPT !.k = @ + 1]
    /\ pc' = "ladder"
    /\ obs' = [obs EXCEPT
                 !.it.sells = Append(@, <<sell.frac, sell.result>>),
                 !.it.ladder = IF sell.result = "skipped" THEN @
                               ELSE Append(@, [key |-> LadderKeys[sw.k],
                                               token_amount |-> sell.token_amount,
                                               sell_amount |-> sell.sell_amount,
                                               result |-> sell.result])]
    /\ sell' = NoSell
    /\ UNCHANGED <<cycles, run, disk, now, env, chain>>

\* back in the ladder loop: record the hit and break, or try the next target
LadderReturn ==
    /\ pc = "ret" /\ sell.event_type = "ladder_hit"
    /\ IF sell.result = "confirmed"
       THEN /\ memory' = [memory EXCEPT !.pos[sw.cur].ladder_hits = @ \cup {LadderKeys[sw.k]}]
            /\ pc' = "dead"
            /\ UNCHANGED sw
       ELSE /\ sw' = [sw EXCEPT !.k = @ + 1]
            /\ pc' = "ladder"
            /\ UNCHANGED memory
    /\ obs' = [obs EXCEPT
                 !.it.sells = Append(@, <<sell.frac, sell.result>>),
                 !.it.ladder = IF sell.result = "skipped" THEN @
                               ELSE Append(@, [key |-> LadderKeys[sw.k],
                                               token_amount |-> sell.token_amount,
                                               sell_amount |-> sell.sell_amount,
                                               result |-> sell.result])]
    /\ sell' = NoSell
    /\ UNCHANGED <<cycles, run, disk, now, env, chain>>

\* the dead token rule
DeadStep ==
    /\ pc = "dead"
    /\ IF DeadDue(Cur, sw.ts)
       THEN ExecSell([memory EXCEPT !.pos[sw.cur].status = "EXITING"], sw.cur,
                     DeadFracPct, "dead_exit_step",
                     [obs EXCEPT !.it.pre = Cur, !.it.dead_fired = TRUE])
       ELSE pc' = "mbcheck" /\ UNCHANGED <<memory, disk, sell, obs>>
    /\ UNCHANGED <<cycles, run, now, env, sw, chain>>

DeadReturn ==
    /\ pc = "ret" /\ sell.event_type = "dead_exit_step"
    /\ pc' = "mbcheck"
    /\ obs' = [obs EXCEPT !.it.sells = Append(@, <<sell.frac, sell.result>>)]
    /\ sell' = NoSell
    /\ UNCHANGED <<cycles, run, memory, disk, now, env, sw, chain>>

\* the MOON_BAG transition check
MoonbagCheck ==
    /\ pc = "mbcheck"
    /\ IF MoonbagDue(Cur, sw.current_multiple)
       THEN /\ memory' = append_event(
                   [memory EXCEPT !.pos[sw.cur].status = "MOON_BAG",
                                  !.pos[sw.cur].moonbag =
                                      [present |-> TRUE,
                                       ath_multiple |-> sw.current_multiple,
                                       last_trailing_sell_multiple |-> NoMultiple,
                                       activated_timestamp |-> sw.ts]],
                   Ev("moonbag_activated", sw.cur))
            /\ disk' = save_mem(memory')
       ELSE UNCHANGED <<memory, disk>>
    /\ pc' = "close"
    /\ UNCHANGED <<cycles, run, now, env, sw, sell, chain, obs>>

\* the MOON_BAG branch: ATH update and trailing exit
TrailStep ==
    /\ pc = "trail"
    /\ LET mb == Cur.moonbag
           ath == AthAfter(mb, sw.current_multiple)
           m == [memory EXCEPT !.pos[sw.cur].moonbag.ath_multiple = ath]
       IN  IF ~mb.present
           THEN pc' = "close" /\ UNCHANGED <<memory, disk, sell, obs>>
           ELSE IF TrailingDue(ath, mb.last_trailing_sell_multiple, sw.current_multiple)
           THEN ExecSell(m, sw.cur, TrailFracPct, "moonbag_trailing_sell",
                         [obs EXCEPT !.it.pre = Cur])
           ELSE /\ memory' = m
                /\ pc' = "close"
                /\ UNCHANGED <<disk, sell, obs>>
    /\ UNCHANGED <<cycles, run, now, env, sw, chain>>

TrailReturn ==
    /\ pc = "ret" /\ sell.event_type = "moonbag_trailing_sell"
    /\ memory' = IF sell.result = "confirmed"
                 THEN [memory EXCEPT !.pos[sw.cur].moonbag.last_trailing_sell_multiple =
                                          sw.current_multiple]
                 ELSE memory
    /\ pc' = "close"
    /\ obs' = [obs EXCEPT
                 !.it.sells = Append(@, <<sell.frac, sell.result>>),
                 !.trailed = IF sell.result = "confirmed"
                             THEN {t \in @ : t[1] # sw.cur}
                                  \cup {<<sw.cur, sw.current_multiple>>}
                             ELSE @]
    /\ sell' = NoSell
    /\ UNCHANGED <<cycles, run, disk, now, env, sw, chain>>

\* the close condition, then on to the next position
CloseStep ==
    /\ pc = "close"
    /\ IF CloseDue(Cur)
       THEN /\ memory' = ClosePosition(memory, sw.cur, sw.roi, sw.ts)
            /\ disk' = save_mem(memory')
       ELSE UNCHANGED <<memory, disk>>
    /\ sw' = [sw EXCEPT !.queue = Tail(@), !.cur = NoPos, !.status = "none",
                        !.current_multiple = 0, !.roi = 0, !.k = 0]
    /\ obs' = [obs EXCEPT !.it = NoIteration]
    /\ pc' = "sweep"
    /\ UNCHANGED <<cycles, run, now, env, sell, chain>>

\* the loop is over: manage_portfolio returns to main
EndSweep ==
    /\ pc = "sweep" /\ sw.queue = << >>
    /\ pc' = "policy"
    /\ sw' = NoSweep
    /\ obs' = [obs EXCEPT !.eco0 = memory.economy, !.eco_expected = memory.economy,
                          !.confirmed = 0, !.failed = 0, !.valued = {},
                          !.swept = << >>]
    /\ UNCHANGED <<cycles, run, memory, disk, now, env, sell, chain>>

(* main() after manage_portfolio *)

\* main() returns and the process exits: what was not saved is gone
EndCycle(saved) ==
    /\ disk' = saved
    /\ memory' = saved
    /\ pc' = "idle"
    /\ run' = NoRun

\* the kill switch check: the cycle ends before anything else runs
KillSwitchHalt ==
    /\ pc = "idle" /\ cycles < MaxCycles
    /\ disk.system.kill_switch
    /\ cycles' = cycles + 1
    /\ EndCycle(append_event(disk, Ev("kill_switch_active", NoPos)))
    /\ UNCHANGED <<now, env, sw, sell, chain, obs>>

\* get_prev_balances / set_prev_balances, observe, select_mode
SelectPolicy ==
    /\ pc = "policy"
    /\ LET edge == env.edge
            b == memory.economy.balances
            m1 == IF memory.learning.last_balances = << >>
                  THEN [memory EXCEPT !.learning.last_balances = <<b.seer, b.mon>>]
                  ELSE memory
            m2 == [m1 EXCEPT !.world.edge = edge]
            chosen_policy == select_mode(m2, edge)
        IN  /\ run' = chosen_policy
            /\ memory' = append_event(m2, Ev("policy_chosen", NoPos))
    /\ pc' = "gate"
    /\ UNCHANGED <<cycles, disk, now, env, sw, sell, chain, obs>>

\* the gates decided by the document: policy, economy, portfolio
GateReason(m, mode) ==
    IF mode = "no_launch" THEN "gating_no_launch"
    ELSE IF ~can_launch(m) THEN "gating_economy"
    ELSE IF get_active_position_count(m) >= MAX_ACTIVE_POSITIONS THEN "gating_portfolio"
    ELSE "none"

\* what every gate does: event, zero-reward update, run record, save, return
Gated(m, reason) ==
    LET m1 == append_event(m, Ev(reason, NoPos))
        m2 == update_bandit(m1, run.bucket, run.mode, 0)
        m3 == append_event(m2, Ev("learning_update", NoPos))
    IN  append_event(m3, Ev("run", NoPos))

PolicyGate ==
    /\ pc = "gate"
    /\ GateReason(memory, run.mode) # "none"
    /\ EndCycle(Gated(memory, GateReason(memory, run.mode)))
    /\ UNCHANGED <<cycles, now, env, sw, sell, chain, obs>>

\* LLM disabled, no API key, think/decide raise RuntimeError, decide says no
ThinkGate ==
    /\ pc = "gate"
    /\ GateReason(memory, run.mode) = "none"
    /\ \E reason \in {"gating_llm_disabled", "gating_no_api_key",
                      "gating_llm_error", "gating_decide_no_launch"} :
           EndCycle(Gated(memory, reason))
    /\ UNCHANGED <<cycles, now, env, sw, sell, chain, obs>>

\* decide says launch, generate_token_idea raises or returns no ticker:
\* the run ends without saving
TokenIdeaFails ==
    /\ pc = "gate"
    /\ GateReason(memory, run.mode) = "none"
    /\ EndCycle(disk)
    /\ UNCHANGED <<cycles, now, env, sw, sell, chain, obs>>

\* the launch lock check and the daily cooldown check
LaunchBlockedBy(m, t) ==
    \/ m.launch_control.launch_in_progress
    \/ t - m.launch_control.last_launch_timestamp < LaunchCooldownDays

LaunchBlocked ==
    /\ pc = "gate"
    /\ GateReason(memory, run.mode) = "none"
    /\ LaunchBlockedBy(memory, now)
    /\ EndCycle(append_event(memory, Ev("launch_blocked", NoPos)))
    /\ UNCHANGED <<cycles, now, env, sw, sell, chain, obs>>

\* the end of main(): the run record and the last save
FinishRun(m) == append_event(m, Ev("run", NoPos))

\* A faulty except clause that leaves the launch lock set
LaunchFailed_Locked(m) ==
    append_event(m, Ev("launch_failed", NoPos))

\* the except clause of the launch
LaunchFailed(m) ==
    append_event([m EXCEPT !.launch_control.launch_in_progress = FALSE],
                 Ev("launch_failed", NoPos))

\* the lock is taken and saved; a rate-limited launch raises at once
LaunchBegin ==
    /\ pc = "gate"
    /\ GateReason(memory, run.mode) = "none"
    /\ ~LaunchBlockedBy(memory, now)
    /\ LET m1 == [memory EXCEPT !.launch_control.launch_in_progress = TRUE]
       IN  IF is_rate_limited(m1, now)
           THEN EndCycle(FinishRun(LaunchFailed(
                             append_event(m1, Ev("launch_blocked", NoPos)))))
           ELSE /\ memory' = m1
                /\ disk' = m1
                /\ pc' = "launching"
                /\ UNCHANGED run
    /\ UNCHANGED <<cycles, now, env, sw, sell, chain, obs>>

\* "3.4 Success: Update memory and positions"
new_position(t) == Position("active", 0, 0, {}, NoMoonbag, t)

PortfolioEntry(m, t) ==
    LET id == Len(m.pos) + 1
        m1 == [m EXCEPT !.pos = Append(@, new_position(t)),
                        !.active_positions = Append(@, id),
                        !.launch_control.last_launch_timestamp = t,
                        !.launch_control.launch_in_progress = FALSE]
    IN  append_event(m1, Ev("portfolio_entry", id))

\* "3.5 Social Ritual"
RitualPosted(m, t) ==
    LET m1 == [m EXCEPT !.launches = Append(@, Len(m.pos)),
                        !.social.last_ritual_post_ts = t,
                        !.stats.ritual_posts_total = @ + 1]
    IN  append_event(m1, Ev("ritual_post_written", NoPos))

\* executor.launch_token returns and the ritual post is written
LaunchSucceeds ==
    /\ pc = "launching"
    /\ chain' = [chain EXCEPT !.inflight = Append(@, 0), !.launches = @ + 1]
    /\ EndCycle(FinishRun(RitualPosted(PortfolioEntry(memory, now), now)))
    /\ UNCHANGED <<cycles, now, env, sw, sell, obs>>

\* executor.launch_token returns, prepare_ritual_post raises
RitualRaises ==
    /\ pc = "launching"
    /\ chain' = [chain EXCEPT !.inflight = Append(@, 0), !.launches = @ + 1]
    /\ EndCycle(FinishRun(LaunchFailed(PortfolioEntry(memory, now))))
    /\ UNCHANGED <<cycles, now, env, sw, sell, obs>>

\* generate_image or executor.launch_token raises
LaunchRaises ==
    /\ pc = "launching"
    /\ EndCycle(FinishRun(LaunchFailed(memory)))
    /\ UNCHANGED <<cycles, now, env, sw, sell, chain, obs>>

\* time passes between cycles
Tick ==
    /\ pc = "idle" /\ now < MaxNow
    /\ now' = now + 1
    /\ UNCHANGED <<cycles, run, memory, disk, env, pc, sw, sell, chain, obs>>

Sweep ==
    \/ StartSweep \/ SkipPosition \/ QuoteFails \/ Valuate
    \/ LadderStep \/ LadderReturn \/ DeadStep \/ DeadReturn
    \/ MoonbagCheck \/ TrailStep \/ TrailReturn \/ CloseStep \/ EndSweep
    \/ SellSent \/ SellRaises \/ ReceiptConfirmed \/ ReceiptFails

Launch ==
    \/ SelectPolicy \/ PolicyGate \/ ThinkGate \/ TokenIdeaFails
    \/ LaunchBlocked \/ LaunchBegin \/ LaunchSucceeds \/ RitualRaises \/ LaunchRaises

Next == StartCycle \/ KillSwitchHalt \/ Sweep \/ Launch \/ Tick

Spec == Init /\ [][Next]_vars

\* The process dies inside a cycle: what was not saved is gone, a transaction
\* that was sent stays with the collaborator
Crash ==
    /\ pc \notin {"idle"}
    /\ memory' = disk
    /\ pc' = "idle"
    /\ sw' = NoSweep
    /\ sell' = NoSell
    /\ run' = NoRun
    /\ obs' = [obs EXCEPT !.eco0 = disk.economy, !.eco_expected = disk.economy,
                          !.confirmed = 0, !.failed = 0, !.valued = {},
                          !.it = NoIteration, !.swept = << >>]
    /\ UNCHANGED <<cycles, disk, now, env, chain>>

NextCrash == Next \/ Crash

SpecCrash == Init /\ [][NextCrash]_vars

(* One position over many sweeps: cycles whose launch decision is a gate *)

MaxSweeps == 5          \* cycles in a behaviour
LifecycleTokens == 1000 \* token_amount of a position that can sell many times

\* A position as a launch is meant to leave it, of age 0 at the first cycle
FreshActive == Position("ACTIVE", LifecycleTokens, 0, {}, NoMoonbag, StartDay)

\* A position old enough for the dead-position rule
OldActive(token_amount) == Position("ACTIVE", token_amount, 0, {}, NoMoonbag, 0)

LifecycleScenarios ==
    { <<InitialDocument(<<p>>, 0, SeededBandit, FALSE),
        [dry_run |-> dr, quotes |-> Quotes, edge |-> 0]>> :
          p \in {FreshActive, OldActive(InitialTokens), OldActive(LifecycleTokens)},
          dr \in BOOLEAN }
    \cup { <<InitialDocument(<<[TrailingMoonbag EXCEPT !.token_amount = LifecycleTokens]>>,
                             0, ExperiencedBandit, FALSE),
             [dry_run |-> TRUE, quotes |-> MoonbagQuotes, edge |-> 0]>> }

InitLifecycle ==
    /\ \E sc \in LifecycleScenarios : memory = sc[1] /\ env = sc[2]
    /\ disk = memory
    /\ cycles = 0
    /\ now = StartDay
    /\ pc = "idle"
    /\ sw = NoSweep
    /\ sell = NoSell
    /\ run = NoRun
    /\ chain = [inflight |-> [i \in 1..Len(memory.pos) |-> 0], launches |-> 0]
    /\ obs = [ eco0 |-> memory.economy, eco_expected |-> memory.economy,
               confirmed |-> 0, failed |-> 0, valued |-> {}, it |-> NoIteration,
               trailed |-> {}, swept |-> << >> ]

LifecycleCycle == BeginCycle(MaxSweeps)

NextLifecycle ==
    \/ LifecycleCycle
    \/ StartSweep \/ QuoteFails \/ Valuate
    \/ LadderStep \/ LadderReturn \/ DeadStep \/ DeadReturn
    \/ MoonbagCheck \/ TrailStep \/ TrailReturn \/ CloseStep \/ EndSweep
    \/ SellSent \/ SellRaises \/ ReceiptConfirmed \/ ReceiptFails
    \/ SelectPolicy \/ PolicyGate \/ ThinkGate
    \/ Tick

SpecLifecycle == InitLifecycle /\ [][NextLifecycle]_vars

(* apply_flywheel on its own: economies and arguments from bounded sets *)

MaxCalls == 2       \* apply_flywheel calls in a behaviour

FlywheelMons == {0, 4 * MonScale, 5 * MonScale, 20 * MonScale}
FlywheelReserves == {0, 5 * MonScale}
FlywheelTreasuryPcts == {0, 30, 100, 130}
FlywheelPayouts == {0, 3 * MonScale, 15 * MonScale}
FlywheelStakes == {0, 5 * MonScale}
FlywheelBuybackPcts == {0, 50, 100, 150}
FlywheelBurnPcts == {0, 3}

FlywheelEconomy(mon, reserve, treasury_pct) ==
    [InitialEconomy EXCEPT !.balances.mon = mon,
                           !.params.min_operating_mon = reserve,
                           !.params.treasury_pct_of_profit = treasury_pct]

NoCall == [payout_mon |-> 0, stake_mon |-> 0, buyback_pct |-> 0, burn_pct |-> 0]

InitFlywheel ==
    /\ \E mon \in FlywheelMons, reserve \in FlywheelReserves,
          treasury_pct \in FlywheelTreasuryPcts :
           memory = [InitialDocument(<< >>, 0, SeededBandit, FALSE)
                         EXCEPT !.economy = FlywheelEconomy(mon, reserve, treasury_pct)]
    /\ disk = memory
    /\ cycles = 0
    /\ now = StartDay
    /\ env = [dry_run |-> TRUE, quotes |-> Quotes, edge |-> 0]
    /\ pc = "flywheel"
    /\ sw = NoSweep
    /\ sell = NoSell
    /\ run = NoRun
    /\ chain = [inflight |-> << >>, launches |-> 0]
    /\ obs = [args |-> NoCall, before |-> memory.economy,
              result |-> FlywheelResult(memory.economy, 0, 0, 0, 0)]

\* one call of apply_flywheel(memory, payout_mon, stake_mon, buyback_pct, burn_pct)
FlywheelCall ==
    /\ pc = "flywheel" /\ cycles < MaxCalls
    /\ \E payout_mon \in FlywheelPayouts, stake_mon \in FlywheelStakes,
          buyback_pct \in FlywheelBuybackPcts, burn_pct \in FlywheelBurnPcts :
        /\ memory' = apply_flywheel(memory, payout_mon, stake_mon, buyback_pct, burn_pct)
        /\ obs' = [args |-> [payout_mon |-> payout_mon, stake_mon |-> stake_mon,
                             buyback_pct |-> buyback_pct, burn_pct |-> burn_pct],
                   before |-> memory.economy,
                   result |-> FlywheelResult(memory.economy, payout_mon, stake_mon,
                                             buyback_pct, burn_pct)]
    /\ cycles' = cycles + 1
    /\ UNCHANGED <<disk, now, env, pc, sw, sell, run, chain>>

SpecFlywheel == InitFlywheel /\ [][FlywheelCall]_vars

(* The economy operations on their own, in any order *)

MaxOps == 3         \* economy operations in a behaviour


\* what the last operation was given, found and returned
EconomyOp(op, args, before, ret, plain) ==
    [op |-> op, args |-> args, before |-> before, ret |-> ret, plain |-> plain]

InitEconomy ==
    /\ \E mon \in {0, 3 * MonScale, 5 * MonScale, 20 * MonScale},
          seer \in {0, 2 * MonScale, 20 * MonScale},
          price \in {MonScale \div 2, MonScale, 2 * MonScale},
          frac \in {25, 150} :
           memory = [InitialDocument(<< >>, 0, SeededBandit, FALSE)
                         EXCEPT !.economy.balances.mon = mon,
                                !.economy.balances.seer = seer,
                                !.economy.seer_price_mon = price,
                                !.economy.params.max_seer_sell_frac = frac]
    /\ disk = memory
    /\ cycles = 0
    /\ now = StartDay
    /\ env = [dry_run |-> TRUE, quotes |-> Quotes, edge |-> 0]
    /\ pc = "economy"
    /\ sw = NoSweep
    /\ sell = NoSell
    /\ run = NoRun
    /\ chain = [inflight |-> << >>, launches |-> 0]
    /\ obs = EconomyOp("none", NoCall, memory.economy,
                       [note |-> "none", sold_seer |-> 0, got_mon |-> 0],
                       memory.economy)

\* fund_launch_by_selling_seer(memory, bucket)
FundCall ==
    /\ pc = "economy" /\ cycles < MaxOps
    /\ \E bucket \in Buckets :
        /\ memory' = fund_launch_by_selling_seer(memory, bucket)
        /\ obs' = EconomyOp("fund", [NoCall EXCEPT !.burn_pct = 0] @@ [bucket |-> bucket],
                            memory.economy, FundResult(memory.economy, bucket),
                            memory'.economy)
    /\ cycles' = cycles + 1
    /\ UNCHANGED <<disk, now, env, pc, sw, sell, run, chain>>

\* spend_mon_for_launch(memory)
SpendCall ==
    /\ pc = "economy" /\ cycles < MaxOps
    /\ memory' = spend_mon_for_launch(memory)
    /\ obs' = EconomyOp("spend", NoCall, memory.economy,
                        [note |-> IF memory.economy.balances.mon
                                        < memory.economy.params.mon_per_launch
                                  THEN "insufficient_mon" ELSE "spent_for_launch",
                         sold_seer |-> 0, got_mon |-> 0],
                        memory'.economy)
    /\ cycles' = cycles + 1
    /\ UNCHANGED <<disk, now, env, pc, sw, sell, run, chain>>

\* apply_flywheel(memory, payout_mon, stake_mon, buyback_pct, burn_pct), or
\* apply_payout_and_policy(memory, payout_mon, buyback_pct, burn_pct)
EconomyFlywheelCall ==
    /\ pc = "economy" /\ cycles < MaxOps
    /\ \E payout_mon \in {0, 15 * MonScale}, stake_mon \in {5 * MonScale},
          buyback_pct \in {50, 150}, burn_pct \in {0, 3, 10}, legacy \in BOOLEAN :
        /\ memory' = IF legacy
                     THEN apply_payout_and_policy(memory, payout_mon, buyback_pct, burn_pct)
                     ELSE apply_flywheel(memory, payout_mon, stake_mon, buyback_pct, burn_pct)
        /\ obs' = EconomyOp(IF legacy THEN "payout" ELSE "flywheel",
                            [payout_mon |-> payout_mon,
                             stake_mon |-> IF legacy THEN 0 ELSE stake_mon,
                             buyback_pct |-> buyback_pct, burn_pct |-> burn_pct],
                            memory.economy,
                            [note |-> "flywheel", sold_seer |-> 0, got_mon |-> 0],
                            \* the same call with burn_pct = 0
                            IF legacy
                            THEN apply_payout_and_policy(memory, payout_mon,
                                                         buyback_pct, 0).economy
                            ELSE apply_flywheel(memory, payout_mon, stake_mon,
                                                buyback_pct, 0).economy)
    /\ cycles' = cycles + 1
    /\ UNCHANGED <<disk, now, env, pc, sw, sell, run, chain>>

NextEconomy == FundCall \/ SpendCall \/ EconomyFlywheelCall

SpecEconomy == InitEconomy /\ [][NextEconomy]_vars

(* select_mode and update_bandit on their own: tables, edges and rewards from
   bounded sets *)

MaxUpdates == 6     \* update_bandit calls in a behaviour
MaxFree == 1        \* of these, calls for a pair other than the selected one

\* edges in 1/MultScale: the ends of [-1, 1], the boundaries -0.2 and 0.2 and
\* their neighbours
BanditEdges ==
    {0 - MultScale, 0 - 2001, 0 - 2000, 0 - 1999, 0, 1999, 2000, 2001, MultScale}

BanditRewards == {0 - MultScale, 2 * MultScale + 1}

Modes == {DEFAULT_MODES[k] : k \in 1..Len(DEFAULT_MODES)}

\* A table in which every mode was tried once, with different results per bucket
VariedBandit ==
    [b \in Buckets |->
        [md \in Modes |->
            [n |-> 1,
             mean_reward |->
                 IF b = "neutral" THEN 0
                 ELSE IF md \in {"growth", "aggressive"} THEN 2 * MultScale + 1
                 ELSE IF md = "balanced" /\ b = "bad" THEN 0 - MultScale
                 ELSE 0]]]

BanditTables == {SeededBandit, ExperiencedBandit, VariedBandit}

NoUpdate == [bucket |-> "none", mode |-> "none", reward |-> 0]

InitBandit ==
    /\ \E table \in BanditTables, e \in BanditEdges :
        /\ memory = InitialDocument(<< >>, 0, table, FALSE)
        /\ env = [dry_run |-> TRUE, quotes |-> Quotes, edge |-> e]
        /\ obs = [ args |-> NoUpdate,        \* the last update_bandit call
                   before |-> table,         \* the table before it
                   sums |-> [b \in Buckets |-> [md \in Modes |->    \* rewards fed
                               table[b][md].n * table[b][md].mean_reward]],
                   rounds |-> 0,   \* updates of the selected mode in a row
                   free |-> 0 ]    \* updates of another pair
    /\ disk = memory
    /\ cycles = 0
    /\ now = StartDay
    /\ pc = "select"
    /\ sw = NoSweep
    /\ sell = NoSell
    /\ run = NoRun
    /\ chain = [inflight |-> << >>, launches |-> 0]

\* chosen_policy = select_mode(memory, edge)
BanditSelect ==
    /\ pc = "select"
    /\ run' = select_mode(memory, env.edge)
    /\ pc' = "update"
    /\ UNCHANGED <<cycles, memory, disk, now, env, sw, sell, chain, obs>>

\* update_bandit(memory, bucket, mode, reward): for the selected pair, or for
\* any other pair
BanditUpdate ==
    /\ pc = "update" /\ cycles < MaxUpdates
    /\ \E bucket \in Buckets, mode \in Modes, reward \in BanditRewards :
        LET selected == bucket = run.bucket /\ mode = run.mode
        IN  /\ selected \/ obs.free < MaxFree
            /\ memory' = update_bandit(memory, bucket, mode, reward)
            /\ obs' = [obs EXCEPT
                         !.args = [bucket |-> bucket, mode |-> mode, reward |-> reward],
                         !.before = memory.learning.bandit,
                         !.sums[bucket][mode] = @ + reward,
                         !.rounds = IF selected THEN @ + 1 ELSE 0,
                         !.free = IF selected THEN @ ELSE @ + 1]
    /\ cycles' = cycles + 1
    /\ pc' = "select"
    /\ run' = NoRun
    /\ UNCHANGED <<disk, now, env, sw, sell, chain>>

NextBandit == BanditSelect \/ BanditUpdate

SpecBandit == InitBandit /\ [][NextBandit]_vars

(* compute_reward on its own: one launch result rewarded at two edges *)

RewardCallOf(payout, stake, mode, edge) ==
    [payout |-> payout, stake |-> stake, mode |-> mode, edge |-> edge,
     reward |-> compute_reward(payout, stake, mode, edge)]

InitReward ==
    /\ memory = InitialDocument(<< >>, 0, SeededBandit, FALSE)
    /\ disk = memory
    /\ cycles = 0
    /\ now = StartDay
    /\ \E e \in BanditEdges :
        /\ env = [dry_run |-> TRUE, quotes |-> Quotes, edge |-> e]
        /\ \E payout \in {0, 3 * MonScale, 5 * MonScale, 15 * MonScale},
              stake \in {0 - MonScale, 0, 5 * MonScale},
              mode \in {"balanced", "aggressive", "no_launch"} :
              obs = [prev |-> RewardCallOf(payout, stake, mode, e),
                     cur |-> RewardCallOf(payout, stake, mode, e)]
    /\ pc = "reward"
    /\ sw = NoSweep
    /\ sell = NoSell
    /\ run = NoRun
    /\ chain = [inflight |-> << >>, launches |-> 0]

\* one more call of compute_reward(payout, stake, mode, bucket, edge), for the
\* same payout, stake and mode at another edge
RewardCall ==
    /\ pc = "reward"
    /\ \E e \in BanditEdges :
        /\ obs' = [prev |-> obs.cur,
                   cur |-> RewardCallOf(obs.cur.payout, obs.cur.stake, obs.cur.mode, e)]
        /\ env' = [env EXCEPT !.edge = e]
    /\ UNCHANGED <<cycles, memory, disk, now, pc, sw, sell, run, chain>>

SpecReward == InitReward /\ [][RewardCall]_vars

(* Properties *)

\* pc values inside manage_portfolio's loop
InSweep ==
    pc \in {"sweep", "ladder", "dead", "mbcheck", "trail", "close",
            "ret", "submit", "receipt"}

\* C1: a sell reaches the collaborator only for a position whose tx_pending was
\* false when execute_position_sell was entered; from the submission to the
\* receipt tx_pending is true (in memory and persisted); no position ever has
\* two sells in flight.
C1_OneSellInFlight ==
    /\ \A i \in DOMAIN chain.inflight :
          /\ chain.inflight[i] <= 1
          /\ chain.inflight[i] = 1 =>
                /\ pc = "receipt" /\ sw.cur = i
                /\ memory.pos[i].tx_pending /\ disk.pos[i].tx_pending
    /\ pc \in {"submit", "receipt"} => ~obs.it.pre.tx_pending /\ Cur.tx_pending
    /\ pc = "receipt" => chain.inflight[sw.cur] = 1

\* a sell is in flight after an earlier attempt of the same sweep on the same position
C1_Witness ==
    /\ pc = "receipt" /\ chain.inflight[sw.cur] = 1
    /\ Len(obs.it.sells) >= 1

\* C2 (amended): after a failed sell attempt token_amount, sold_pct_total,
\* ladder_hits and moonbag equal their values from before the rule was
\* evaluated, status equals its value at the call of execute_position_sell
\* (EXITING when the dead-position rule made the attempt), tx_pending is false
\* and the last event is sell_failed.
C2_FailedSellRestores ==
    (pc = "ret" /\ sell.result = "failed") =>
        /\ Cur.token_amount = obs.it.pre.token_amount
        /\ Cur.sold_pct_total = obs.it.pre.sold_pct_total
        /\ Cur.ladder_hits = obs.it.pre.ladder_hits
        /\ Cur.moonbag = obs.it.pre.moonbag
        /\ Cur.status = IF sell.event_type = "dead_exit_step" THEN "EXITING"
                        ELSE obs.it.pre.status
        /\ ~Cur.tx_pending
        /\ memory.events # << >>
        /\ memory.events[Len(memory.events)] = Ev("sell_failed", sw.cur)

\* the dead-position rule's sell failed on a position that was ACTIVE or EARLY
C2_Witness ==
    /\ pc = "ret" /\ sell.result = "failed"
    /\ sell.event_type = "dead_exit_step"
    /\ obs.it.pre.status \in {"EARLY", "ACTIVE"}

\* C2 as stated: after a failed sell attempt status too equals its value from
\* before the rule that triggered the attempt was evaluated.
C2_StatusRestored ==
    (pc = "ret" /\ sell.result = "failed") =>
        /\ Cur.token_amount = obs.it.pre.token_amount
        /\ Cur.sold_pct_total = obs.it.pre.sold_pct_total
        /\ Cur.ladder_hits = obs.it.pre.ladder_hits
        /\ Cur.moonbag = obs.it.pre.moonbag
        /\ Cur.status = obs.it.pre.status
        /\ ~Cur.tx_pending
        /\ memory.events # << >>
        /\ memory.events[Len(memory.events)] = Ev("sell_failed", sw.cur)

\* C3: during a sweep the economy equals the economy at the start of the sweep
\* with apply_flywheel applied once per confirmed sell, in order; with no
\* confirmed sell it is the economy the sweep started with.
C3_EconomyOnlyByFlywheel ==
    InSweep =>
        /\ memory.economy = obs.eco_expected
        /\ obs.confirmed = 0 => memory.economy = obs.eco0

\* a sweep ends after two confirmed sells and a failed one
C3_Witness ==
    /\ pc = "sweep" /\ sw.queue = << >>
    /\ obs.confirmed = 2 /\ obs.failed = 1
    /\ memory.economy # obs.eco0

\* C4: in every step, for every position, sold_pct_total does not decrease and
\* stays in [0,100], token_amount does not increase and stays non-negative.
C4_SoldAndTokensMonotone ==
    [][\A i \in 1..Len(memory.pos) :
          /\ memory'.pos[i].sold_pct_total >= memory.pos[i].sold_pct_total
          /\ memory'.pos[i].sold_pct_total >= 0
          /\ memory'.pos[i].sold_pct_total <= PctFull
          /\ memory'.pos[i].token_amount <= memory.pos[i].token_amount
          /\ memory'.pos[i].token_amount >= 0]_vars

\* a position sold twice, in a behaviour with a failed sell in the last sweep
C4_Witness ==
    /\ obs.failed = 1
    /\ \E i \in 1..Len(memory.pos) :
          /\ memory.pos[i].token_amount <= InitialTokens - 2
          /\ memory.pos[i].sold_pct_total > 0

\* C5: apply_flywheel's buyback never takes the MON balance below
\* min_operating_mon: if the balance after crediting the payout is at least
\* min_operating_mon so is the balance after the buyback, and if it is below,
\* the buyback budget is 0 and the balance is the credited one.
C5_BuybackKeepsReserve ==
    (pc = "flywheel" /\ cycles > 0) =>
        LET reserve == obs.before.params.min_operating_mon
            credited == obs.before.balances.mon + obs.args.payout_mon
        IN  /\ credited >= reserve => memory.economy.balances.mon >= reserve
            /\ credited < reserve =>
                  /\ obs.result.buyback_budget = 0
                  /\ memory.economy.balances.mon = credited

\* the reserve cuts a positive budget: the balance ends exactly at the reserve
C5_Witness ==
    /\ pc = "flywheel" /\ cycles > 0
    /\ obs.result.buyback_budget > 0
    /\ obs.result.buyback_budget < obs.result.buyback_budget_raw
    /\ memory.economy.balances.mon = obs.before.params.min_operating_mon

\* C6: every position is in exactly one of active_positions and
\* closed_positions, exactly once, and is CLOSED iff it is in closed_positions;
\* between iterations of the sweep a position with sold_pct_total >= 99 is CLOSED.
C6_ClosedExactlyOnce ==
    /\ \A i \in 1..Len(memory.pos) :
          LET in_active == Cardinality({j \in 1..Len(memory.active_positions) :
                                            memory.active_positions[j] = i})
              in_closed == Cardinality({j \in 1..Len(memory.closed_positions) :
                                            memory.closed_positions[j] = i})
          IN  /\ in_active + in_closed = 1
              /\ memory.pos[i].status = "CLOSED" <=> in_closed = 1
    /\ pc \in {"idle", "manage", "sweep", "policy", "gate", "launching"} =>
          \A i \in 1..Len(memory.pos) :
              memory.pos[i].sold_pct_total >= CloseAtPct * PctScale
                  => memory.pos[i].status = "CLOSED"

\* two positions were closed and nothing is left active
C6_Witness ==
    /\ Len(memory.closed_positions) = 2
    /\ memory.active_positions = << >>

\* C7: loss_streak changes only in the step that closes a position, to
\* loss_streak + 1 when the closing ROI is below 0 and to 0 otherwise; a closure
\* that leaves loss_streak >= 3 sets launch_blocked_until to the sweep's
\* timestamp plus 48 hours.
C7_LossStreakAtClosure ==
    [][IF pc = "close" /\ Cur.sold_pct_total >= CloseAtPct * PctScale
       THEN /\ memory'.core_guard.loss_streak =
                   IF sw.roi < 0 THEN memory.core_guard.loss_streak + 1 ELSE 0
            /\ memory'.core_guard.loss_streak >= LossStreakLimit =>
                   memory'.core_guard.launch_blocked_until = sw.ts + BlockDays
       ELSE memory'.core_guard.loss_streak = memory.core_guard.loss_streak]_vars

\* a losing closure took the streak to 3 and set the block
C7_Witness ==
    /\ pc = "sweep"
    /\ memory.core_guard.loss_streak = LossStreakLimit
    /\ memory.core_guard.launch_blocked_until = sw.ts + BlockDays

\* C8: in a cycle whose current time is earlier than
\* core_guard.launch_blocked_until no launch is executed (the launch
\* collaborator is not invoked, no position is added).
C8_NoLaunchWhileBlocked ==
    [][(chain'.launches > chain.launches \/ Len(memory'.pos) > Len(memory.pos))
           => ~(now < memory.core_guard.launch_blocked_until)]_vars

\* C9: when the ladder loop of a sweep is over, at most one ladder sell was
\* confirmed, a confirmed ladder sell is for the lowest threshold that was
\* crossed and not yet hit when the position was valued, it sold 20% of the
\* token_amount (rounded down to whole tokens), and ladder_hits gained that
\* threshold's key and no other.
C9_LowestThresholdOnly ==
    pc = "dead" =>
        LET start == obs.it.start
            due == {k \in 1..Len(LadderTargets) :
                        /\ sw.roi >= LadderTargets[k] * MultScale
                        /\ LadderKeys[k] \notin start.ladder_hits}
            lowest == CHOOSE k \in due : \A h \in due : k <= h
            done == {j \in 1..Len(obs.it.ladder) : obs.it.ladder[j].result = "confirmed"}
        IN  /\ Cardinality(done) <= 1
            /\ \A j \in done :
                  /\ obs.it.ladder[j].key = LadderKeys[lowest]
                  /\ obs.it.ladder[j].sell_amount =
                         (obs.it.ladder[j].token_amount * 20) \div 100
                  /\ Cur.ladder_hits = start.ladder_hits \cup {LadderKeys[lowest]}
            /\ done = {} => Cur.ladder_hits = start.ladder_hits

\* C10: when the rules of a position's iteration are over, the dead-position
\* rule has fired exactly if the position was swept as EARLY, ACTIVE or
\* EXITING, is at least 4 days old and has no ladder hit; if it fired the
\* position is EXITING and execute_position_sell was called with 15%.
C10_DeadRuleFires ==
    pc = "close" =>
        /\ obs.it.dead_fired <=>
              /\ sw.status \in {"EARLY", "ACTIVE", "EXITING"}
              /\ sw.ts - Cur.timestamp >= 4
              /\ Cur.ladder_hits = {}
        /\ obs.it.dead_fired =>
              /\ Cur.status = "EXITING"
              /\ \E j \in 1..Len(obs.it.sells) : obs.it.sells[j][1] = 15

\* the rule fired on a position swept as EARLY, after a failed ladder attempt
C10_Witness ==
    /\ pc = "close" /\ obs.it.dead_fired
    /\ obs.it.start.status = "EARLY"
    /\ Len(obs.it.sells) >= 2

\* C11: a position's status becomes MOON_BAG only at the activation check of a
\* sweep that valued it as ACTIVE, with ladder_hits containing 100, 300 and
\* 600, sold_pct_total >= 60 and current_multiple >= 7.0; and whenever all of
\* these hold at the activation check it becomes MOON_BAG with
\* moonbag.ath_multiple = current_multiple and no last trailing-sell multiple.
C11_MoonbagActivation ==
    [][\A i \in 1..Len(memory.pos) :
          LET p == memory.pos[i]
              q == memory'.pos[i]
              due == /\ pc = "mbcheck" /\ sw.cur = i
                     /\ p.status = "ACTIVE" /\ sw.status = "ACTIVE"
                     /\ 100 \in p.ladder_hits /\ 300 \in p.ladder_hits
                     /\ 600 \in p.ladder_hits
                     /\ p.sold_pct_total >= 60 * PctScale
                     /\ sw.current_multiple >= 7 * MultScale
          IN  /\ (q.status = "MOON_BAG" /\ p.status # "MOON_BAG") => due
              /\ due => /\ q.status = "MOON_BAG"
                        /\ q.moonbag.present
                        /\ q.moonbag.ath_multiple = sw.current_multiple
                        /\ q.moonbag.last_trailing_sell_multiple = NoMultiple]_vars

\* a position became MOON_BAG in the sweep that confirmed its 600 ladder sell
C11_Witness ==
    /\ pc = "close" /\ Cur.status = "MOON_BAG" /\ sw.status = "ACTIVE"
    /\ Cur.moonbag.ath_multiple = sw.current_multiple
    /\ Len(obs.it.ladder) >= 1

\* C12: in the MOON_BAG branch of a sweep ath_multiple becomes
\* max(ath_multiple, current_multiple), and execute_position_sell is called
\* (with 20%) exactly when current_multiple < 0.7 * ath_multiple and either no
\* trailing sell of the position was confirmed before or current_multiple <
\* 0.95 * the multiple of its last confirmed trailing sell; so no trailing sell
\* is triggered at the multiple of the last confirmed one.
C12_TrailingStop ==
    [][(pc = "trail" /\ Cur.moonbag.present) =>
          LET current_multiple == sw.current_multiple
              ath == Max(Cur.moonbag.ath_multiple, current_multiple)
              before == {t \in obs.trailed : t[1] = sw.cur}
              due == /\ 100 * current_multiple < 70 * ath
                     /\ \/ before = {}
                        \/ \A t \in before : 100 * current_multiple < 95 * t[2]
              triggered == sell'.event_type = "moonbag_trailing_sell"
          IN  /\ memory'.pos[sw.cur].moonbag.ath_multiple = ath
              /\ triggered <=> due
              /\ triggered => sell'.frac = 20
              /\ triggered => <<sw.cur, current_multiple>> \notin obs.trailed]_vars

\* C13: while a sell is being submitted or awaited the persisted document has
\* tx_pending = true for its position, and a crash between the submission and
\* the receipt leaves it true in the persisted document.
C13_PendingPersistedFirst ==
    [][(pc = "submit" \/ pc = "receipt") =>
          /\ disk.pos[sw.cur].tx_pending
          /\ pc' = "idle" => disk'.pos[sw.cur].tx_pending]_vars

\* the process died with a sell in flight; the file says tx_pending
C13_Witness ==
    /\ pc = "idle"
    /\ \E i \in 1..Len(disk.pos) : chain.inflight[i] = 1 /\ disk.pos[i].tx_pending

\* C14: a position whose persisted tx_pending is true while no sell of the
\* running process is at work on it (left by a crash) keeps tx_pending = true
\* and gets no fresh sell submitted, whatever the sweep meets.
C14_StuckStaysStuck ==
    [][\A i \in 1..Len(disk.pos) :
          (disk.pos[i].tx_pending /\ ~(pc \in {"submit", "receipt"} /\ sw.cur = i))
              => /\ disk'.pos[i].tx_pending
                 /\ chain'.inflight[i] <= chain.inflight[i]]_vars

\* C15: when the sweep is between rules or positions, the persisted document
\* has every position's token_amount, sold_pct_total, ladder_hits and
\* last_trailing_sell_multiple and the economy as the sells left them in
\* memory: no sold tokens without the ladder hit or trailing multiple.
C15_SellPersistedWithReason ==
    pc \in {"sweep", "dead", "mbcheck", "close"} =>
        /\ disk.economy = memory.economy
        /\ \A i \in 1..Len(memory.pos) :
              /\ disk.pos[i].token_amount = memory.pos[i].token_amount
              /\ disk.pos[i].sold_pct_total = memory.pos[i].sold_pct_total
              /\ disk.pos[i].ladder_hits = memory.pos[i].ladder_hits
              /\ disk.pos[i].moonbag.last_trailing_sell_multiple =
                     memory.pos[i].moonbag.last_trailing_sell_multiple

C17_OnePairUpdated ==
    [][cycles' = cycles + 1 =>
          LET old == memory.learning.bandit
              new == memory'.learning.bandit
              a == obs'.args
          IN  /\ a.bucket \in Buckets /\ a.mode \in Modes
              /\ DOMAIN old \subseteq DOMAIN new
              /\ \A b \in DOMAIN old :
                    /\ DOMAIN old[b] \subseteq DOMAIN new[b]
                    /\ \A md \in DOMAIN old[b] :
                          IF b = a.bucket /\ md = a.mode
                          THEN new[b][md].n = old[b][md].n + 1
                          ELSE new[b][md] = old[b][md]]_vars

\* a pair was updated in a bucket other than the selected one, next to pairs
\* with pulls and means of their own
C17_Witness ==
    /\ pc = "select" /\ obs.free = 1 /\ obs.rounds = 0
    /\ memory.learning.bandit[obs.args.bucket][obs.args.mode].n = 2
    /\ \E b \in Buckets \ {obs.args.bucket}, md \in Modes :
          memory.learning.bandit[b][md].n = 1
              /\ memory.learning.bandit[b][md].mean_reward # 0

C19_MaxScoreEarliest ==
    pc = "update" =>
        LET stats == memory.learning.bandit[run.bucket]
            t == 1 + stats["conservative"].n + stats["balanced"].n + stats["growth"].n
                   + stats["signal"].n + stats["aggressive"].n + stats["no_launch"].n
            \* the score of the k-th mode exceeds that of the j-th
            Exceeds(k, j) ==
                LET sk == stats[DEFAULT_MODES[k]]
                    sj == stats[DEFAULT_MODES[j]]
                IN  IF sj.n = 0 THEN FALSE
                    ELSE IF sk.n = 0 THEN TRUE
                    ELSE sk.mean_reward + UcbBonus[t][sk.n]
                             > sj.mean_reward + UcbBonus[t][sj.n]
        IN  \E c \in 1..6 :
              /\ run.mode = DEFAULT_MODES[c]
              /\ \A k \in 1..6 : ~Exceeds(k, c)
              /\ \A k \in 1..(c - 1) : Exceeds(c, k)

\* a later mode won on its score, with an earlier mode of the same score
\* behind it and a tie of two tried modes
C19_Witness ==
    /\ pc = "update" /\ run.mode = "aggressive"
    /\ LET stats == memory.learning.bandit[run.bucket]
       IN  /\ stats["aggressive"].n > 0
           /\ \E md \in {"conservative", "balanced"} :
                 stats[md] = stats["signal"] /\ stats[md].n > 0

\* C20: get_bucket returns bad exactly for an edge below -0.2, good exactly
\* for an edge above 0.2 and neutral otherwise (-0.2 and 0.2 are neutral),
\* whatever the memory document holds.
C20_BucketOfEdge ==
    pc = "update" =>
        /\ run.edge = env.edge
        /\ run.bucket \in {"bad", "neutral", "good"}
        /\ run.bucket = "bad" <=> 10 * run.edge < 0 - 2 * MultScale
        /\ run.bucket = "good" <=> 10 * run.edge > 2 * MultScale
        /\ run.bucket = "neutral" <=>
               (10 * run.edge >= 0 - 2 * MultScale /\ 10 * run.edge <= 2 * MultScale)

\* the boundary edge -0.2 was bucketed as neutral on a table changed by updates
C20_Witness ==
    /\ pc = "update" /\ run.edge = 0 - 2000 /\ run.bucket = "neutral"
    /\ cycles >= 2 /\ memory.learning.bandit # obs.before

C22_FlywheelArithmetic ==
    LET a == obs.args
        unit(pct) == IF pct < 0 THEN 0 ELSE IF pct > 100 THEN 100 ELSE pct
        profit == IF a.payout_mon > a.stake_mon THEN a.payout_mon - a.stake_mon ELSE 0
        take == (profit * unit(obs.before.params.treasury_pct_of_profit)) \div 100
        rest == profit - take
        raw == (rest * unit(a.buyback_pct)) \div 100
        example == /\ a.stake_mon = 5 * MonScale /\ a.payout_mon = 15 * MonScale
                   /\ obs.before.params.treasury_pct_of_profit = 30
                   /\ a.buyback_pct = 50
    IN  (pc = "flywheel" /\ cycles > 0) =>
          /\ obs.result.profit = profit
          /\ obs.result.treasury_take = take
          /\ obs.result.profit_after_treasury = rest
          /\ obs.result.buyback_budget_raw = raw
          /\ memory.economy.treasury_mon = obs.before.treasury_mon + take
          /\ example => /\ profit = 10 * MonScale /\ take = 3 * MonScale
                        /\ rest = 7 * MonScale /\ 2 * raw = 7 * MonScale

\* the call of the example, made on an economy whose treasury was already fed
C22_Witness ==
    /\ pc = "flywheel" /\ cycles = 2
    /\ obs.args.stake_mon = 5 * MonScale /\ obs.args.payout_mon = 15 * MonScale
    /\ obs.before.params.treasury_pct_of_profit = 30 /\ obs.args.buyback_pct = 50
    /\ obs.before.treasury_mon > 0
    /\ memory.economy.treasury_mon = obs.before.treasury_mon + 3 * MonScale

\* C23: fund_launch_by_selling_seer sells nothing and changes no balance when
\* mon >= mon_per_launch; otherwise it sells exactly
\* min((mon_per_launch - mon)/price, seer * clamp(max_seer_sell_frac * scale, 0, 1))
\* SEER with scale 0.25, 0.60, 1.00 for bad, neutral, good, credits sold * price
\* MON and never raises mon above mon_per_launch; when mon is below
\* mon_per_launch, spend_mon_for_launch reports insufficient_mon and changes
\* nothing.
C23_FundingSale ==
    LET b == obs.before
        after == memory.economy
        needed == b.params.mon_per_launch
        price == b.seer_price_mon
        scale == CASE obs.args.bucket = "bad" -> 25
                   [] obs.args.bucket = "neutral" -> 60
                   [] obs.args.bucket = "good" -> 100
        frac == b.params.max_seer_sell_frac * scale
        share == IF frac < 0 THEN 0 ELSE IF frac > 10000 THEN 10000 ELSE frac
        cap == (b.balances.seer \div 10000) * share
                     + ((b.balances.seer % 10000) * share) \div 10000
        required == ((needed - b.balances.mon) * MonScale) \div price
        sold == IF required < cap THEN required ELSE cap
    IN  /\ (pc = "economy" /\ obs.op = "fund") =>
              IF b.balances.mon >= needed
              THEN after = b /\ obs.ret.sold_seer = 0 /\ obs.ret.got_mon = 0
              ELSE /\ obs.ret.sold_seer = sold
                   /\ obs.ret.got_mon = (sold * price) \div MonScale
                   /\ after.balances.seer = b.balances.seer - sold
                   /\ after.balances.mon = b.balances.mon + (sold * price) \div MonScale
                   /\ after.balances.mon <= needed
                   /\ after.stats.seer_sold_total = b.stats.seer_sold_total + sold
                   /\ after.treasury_mon = b.treasury_mon
                   /\ after.params = b.params
        /\ (pc = "economy" /\ obs.op = "spend" /\ b.balances.mon < needed) =>
              after = b /\ obs.ret.note = "insufficient_mon"

\* SEER was sold up to the cap, the balance stayed below mon_per_launch, and the
\* spend that followed was refused
C23_Witness ==
    /\ pc = "economy" /\ obs.op = "spend"
    /\ obs.before.stats.seer_sold_total > 0
    /\ obs.before.balances.seer > 0
    /\ obs.before.balances.mon < obs.before.params.mon_per_launch
    /\ obs.ret.note = "insufficient_mon"
    /\ memory.economy = obs.before

C29_BalancesNonNegative ==
    pc = "economy" =>
        /\ memory.economy.balances.seer >= 0
        /\ memory.economy.balances.mon >= 0

\* a funded launch was paid for and left the operating balance at zero
C29_Witness ==
    /\ pc = "economy" /\ obs.op = "spend" /\ obs.ret.note = "spent_for_launch"
    /\ obs.before.stats.seer_sold_total > 0
    /\ memory.economy.balances.mon = 0
    /\ memory.economy.balances.seer >= 0

\* C24: can_launch is not-ok exactly when the SEER balance is below
\* min_seer_to_live.  From the moment it returns not-ok the cycle executes no
\* launch: it records gating_economy, applies a zero-reward update to the chosen
\* pair, saves and ends, and leaves balances, treasury and portfolio as they were.
C24_EconomyGate ==
    [][ LET low == memory.economy.balances.seer < memory.economy.params.min_seer_to_live
            n == Len(memory'.events)
            st == memory.learning.bandit[run.bucket][run.mode]
            st1 == memory'.learning.bandit[run.bucket][run.mode]
            drift == st1.n * st1.mean_reward - st.n * st.mean_reward
        IN  (pc = "gate" /\ run.mode # "no_launch") =>
              /\ low =>
                   /\ pc' = "idle" /\ disk' = memory'
                   /\ chain' = chain
                   /\ memory'.economy = memory.economy
                   /\ memory'.pos = memory.pos
                   /\ memory'.active_positions = memory.active_positions
                   /\ memory'.closed_positions = memory.closed_positions
                   /\ n >= 3
                   /\ memory'.events[n - 2].type = "gating_economy"
                   /\ memory'.events[n - 1].type = "learning_update"
                   /\ memory'.events[n].type = "run"
                   /\ st1.n = st.n + 1
                   /\ drift <= st1.n /\ 0 - drift <= st1.n
                   /\ \A b \in Buckets, md \in Modes :
                        (b # run.bucket \/ md # run.mode) =>
                            memory'.learning.bandit[b][md] = memory.learning.bandit[b][md]
              /\ (~low) =>
                   ~ /\ memory' # disk
                     /\ n >= 3
                     /\ memory'.events[n - 2].type = "gating_economy"
      ]_vars

\* a cycle found 0.5 SEER against a minimum of 1 and ended at the economy gate
C24_Witness ==
    /\ pc = "idle" /\ cycles > 0
    /\ memory.economy.balances.seer < memory.economy.params.min_seer_to_live
    /\ Len(memory.events) >= 3
    /\ memory.events[Len(memory.events) - 2].type = "gating_economy"
    /\ disk = memory
    /\ chain.launches = 0

\* C26: once a position's status is CLOSED, no step changes any of its fields:
\* it is never the position a sweep values or sells, nothing of it is in flight,
\* and core_guard changes only in a step that closes a position that was not
\* CLOSED before.
C26_ClosedIsFinal ==
    [][ /\ \A i \in 1..Len(memory.pos) :
              memory.pos[i].status = "CLOSED" =>
                  /\ i <= Len(memory'.pos)
                  /\ memory'.pos[i] = memory.pos[i]
                  /\ sw'.cur # i
                  /\ (i \in obs'.valued) => (i \in obs.valued)
                  /\ chain'.inflight[i] = 0
        /\ memory'.core_guard # memory.core_guard =>
              \E i \in 1..Len(memory.pos) :
                  /\ memory.pos[i].status # "CLOSED"
                  /\ memory'.pos[i].status = "CLOSED"
      ]_vars

\* a later sweep is about to close a second position while the first is CLOSED
C26_Witness ==
    /\ cycles = 2 /\ pc = "close" /\ CloseDue(Cur)
    /\ \E i \in 1..Len(memory.pos) :
          /\ i # sw.cur
          /\ memory.pos[i].status = "CLOSED"
          /\ memory.pos[i].valuation > 0
          /\ InSeq(memory.closed_positions, i)

\* C28: every amount handed to executor.sell is an integer between 1 and the
\* position's token_amount, the floor of token_amount * sell_frac; when that
\* floor is 0, execute_position_sell makes no external call, sets no tx_pending,
\* saves nothing and sells nothing.
C28_SellAmountInRange ==
    /\ [] ( (pc = "submit" \/ pc = "receipt") =>
              /\ sell.sell_amount \in Nat
              /\ 1 <= sell.sell_amount
              /\ sell.sell_amount <= Cur.token_amount
              /\ sell.token_amount = Cur.token_amount
              /\ 100 * sell.sell_amount <= sell.token_amount * sell.frac
              /\ sell.token_amount * sell.frac < 100 * (sell.sell_amount + 1) )
    /\ [][ ( /\ (pc = "ladder" \/ pc = "dead" \/ pc = "trail")
             /\ (pc' = "ret" \/ pc' = "submit")
             /\ sell'.token_amount * sell'.frac < 100 )
           => /\ pc' = "ret"
              /\ sell'.result = "skipped"
              /\ chain' = chain /\ disk' = disk
              /\ memory'.events = memory.events
              /\ memory'.economy = memory.economy
              /\ ~memory'.pos[sw.cur].tx_pending
              /\ memory'.pos[sw.cur].token_amount = Cur.token_amount
              /\ memory'.pos[sw.cur].sold_pct_total = Cur.sold_pct_total
         ]_vars

\* a rule asked for a fraction of a position of which less than one token is
\* that fraction: the sell was skipped with nothing pending
C28_Witness ==
    /\ pc = "ret" /\ sell.result = "skipped"
    /\ sell.token_amount > 0 /\ sell.frac > 0
    /\ sell.token_amount * sell.frac < 100
    /\ sell.sell_amount = 0
    /\ ~Cur.tx_pending
    /\ ~env.dry_run

\* C27: EARLY and ACTIVE are the same to the lifecycle rules: two positions
\* that a sweep finds equal but for the label EARLY or ACTIVE, and that it
\* values alike with no sell failing, end the sweep with the same token_amount,
\* sold_pct_total and ladder_hits and in the same class (open, MOON_BAG, CLOSED).
C27_EarlyLikeActive ==
    [][ LET Class(st) == IF st \in OpenStatuses THEN "open" ELSE st
            twins(i, j) ==
                /\ obs.swept[i].status = "EARLY"
                /\ obs.swept[j] = [obs.swept[i] EXCEPT !.status = "ACTIVE"]
                /\ i \in obs.valued /\ j \in obs.valued
                /\ memory.pos[i].valuation = memory.pos[j].valuation
                /\ obs.failed = 0
        IN  (pc = "sweep" /\ pc' = "policy") =>
              \A i \in 1..Len(obs.swept), j \in 1..Len(obs.swept) :
                  twins(i, j) =>
                      /\ memory.pos[i].token_amount = memory.pos[j].token_amount
                      /\ memory.pos[i].sold_pct_total = memory.pos[j].sold_pct_total
                      /\ memory.pos[i].ladder_hits = memory.pos[j].ladder_hits
                      /\ Class(memory.pos[i].status) = Class(memory.pos[j].status)
      ]_vars

\* C30: no launch is executed in a cycle that finds MAX_ACTIVE_POSITIONS or more
\* positions of status EARLY, ACTIVE or EXITING, and the number of such
\* positions never exceeds MAX_ACTIVE_POSITIONS.
C30_PositionCapGatesLaunch ==
    /\ [][ chain'.launches > chain.launches =>
               Cardinality(get_blocking_positions(memory)) < MAX_ACTIVE_POSITIONS ]_vars
    /\ [] (Cardinality(get_blocking_positions(memory)) <= MAX_ACTIVE_POSITIONS)

\* C31: every cycle that selected a mode and ran to its end applied update_bandit
\* exactly once to the selected pair, launch attempts included: the pull count of
\* the pair is one higher when the cycle ends.
C31_OneUpdatePerCycle ==
    [][ ((pc = "gate" \/ pc = "launching") /\ pc' = "idle") =>
            memory'.learning.bandit[run.bucket][run.mode].n
                = memory.learning.bandit[run.bucket][run.mode].n + 1 ]_vars

\* C32: while a sweep handles a position, at most one sell has been confirmed
\* for it, whichever rules applied and whichever attempts failed: it lost at most
\* the tokens of one sell, and a dead-position sell is not confirmed once a
\* ladder sell was.
C32_OneConfirmedSellPerSweep ==
    LET it == obs.it
        done == {k \in 1..Len(it.sells) : it.sells[k][2] = "confirmed"}
        atRet == IF pc = "ret" /\ sell.result = "confirmed" THEN 1 ELSE 0
        ladderDone == \E k \in 1..Len(it.ladder) : it.ladder[k].result = "confirmed"
        start == it.start.token_amount
        largest == IF (start * 20) \div 100 >= (start * 15) \div 100
                   THEN (start * 20) \div 100 ELSE (start * 15) \div 100
    IN  (InSweep /\ sw.cur # NoPos) =>
          /\ Cardinality(done) + atRet <= 1
          /\ Cur.token_amount >= start - largest
          /\ obs.confirmed <= Cardinality(obs.valued)
          /\ (sell.event_type = "dead_exit_step" /\ sell.result = "confirmed") => ~ladderDone

\* one attempt failed and a later one of the same sweep was confirmed
C32_Witness ==
    /\ pc = "close" /\ sw.cur # NoPos
    /\ \E j, k \in 1..Len(obs.it.sells) :
          /\ j < k
          /\ obs.it.sells[j][2] = "failed"
          /\ obs.it.sells[k][2] = "confirmed"
    /\ Cur.token_amount < obs.it.start.token_amount

\* The position of a document that holds one
Only == memory.pos[1]

\* C33: MOON_BAG is reachable for a position created ACTIVE with nothing sold and
\* no ladder hits: the sells the rules have for it while it is ACTIVE, the three
\* ladder sells, take it there, so that, once all three thresholds are recorded
\* and the position is valued at 7x or more, the rules have made it MOON_BAG.
C33_LadderReachesMoonbag ==
    ( /\ Only.timestamp = StartDay
      /\ pc = "close" /\ sw.cur = 1
      /\ \A k \in 1..Len(LadderKeys) : LadderKeys[k] \in Only.ladder_hits
      /\ sw.current_multiple >= MoonbagMinMultiple * MultScale )
        => Only.status = "MOON_BAG"

\* What holds instead: under every schedule of quotes and sell outcomes the
\* position stays short of the 60% the transition asks for and is never MOON_BAG.
FreshNeverMoonbag ==
    Only.timestamp = StartDay =>
        /\ Only.status # "MOON_BAG"
        /\ Only.sold_pct_total <= 4880

\* Positions that a completed launch appended to active_positions
Launched == {memory.launches[k] : k \in 1..Len(memory.launches)}

\* C34: a position that a successful launch appended to active_positions is
\* managed by the sweep: it has a managed status and a positive token_amount, so
\* the loop of the next manage_portfolio call does not pass it over before
\* valuing it.
C34_LaunchedIsManaged ==
    [][ ~ ( /\ SkipPosition
            /\ Head(sw.queue) \in Launched ) ]_vars

\* C35: apply_flywheel conserves value: the change of the MON balance, the MON
\* spent on the buyback and the amount moved to the treasury add up to the
\* payout (mon_after - mon_before + buyback_budget + treasury_take = payout), so
\* MON credited to the treasury is not also left in the MON balance.
C35_FlywheelConserves ==
    LET r == obs.result
        mon_before == obs.before.balances.mon
        mon_after == memory.economy.balances.mon
        treasury_take == memory.economy.treasury_mon - obs.before.treasury_mon
    IN  (pc = "flywheel" /\ cycles > 0) =>
            mon_after - mon_before + r.buyback_budget + treasury_take = r.payout_mon

\* C36: the flywheel of a position sell works on profit only: a confirmed sell of
\* a position valued below its entry cost (current_multiple < 1) leaves
\* treasury_mon and the SEER balance as they were, and the MON balance grows by
\* the payout.
C36_LossFeedsNothing ==
    [][ ( /\ InSweep /\ sw.cur # NoPos
          /\ sw.current_multiple < MultScale
          /\ memory'.pos[sw.cur].sold_pct_total > Cur.sold_pct_total )
        => /\ memory'.economy.treasury_mon = memory.economy.treasury_mon
           /\ memory'.economy.balances.seer = memory.economy.balances.seer
           /\ memory'.economy.balances.mon
                  = memory.economy.balances.mon + PayoutEstimated(Cur, sell'.frac) ]_vars

\* C37: a dead position eventually closes, whatever positive token_amount it
\* has: while it has no ladder hits, is four days old, stays below ROI 1.0 and no
\* sell is pending, every sweep that reaches the dead-position rule places a
\* sell for it (sold_pct_total then grows by 15% of the rest, sweep after sweep,
\* until the closure rule applies).
C37_DeadSweepSells ==
    [][ ( /\ DeadStep
          /\ DeadDue(Cur, sw.ts)
          /\ sw.roi < 1 * MultScale
          /\ Cur.token_amount > 0
          /\ ~Cur.tx_pending )
        => sell'.result # "skipped" ]_vars

\* C38: position status only moves forward: an EXITING position never becomes
\* EARLY or ACTIVE again, a MOON_BAG position changes status only to CLOSED, and
\* a position becomes CLOSED only by the closure rule, with sold_pct_total >= 99.
C38_StatusForward ==
    [][ LET before(i) == memory.pos[i].status
            after(i) == memory'.pos[i].status
        IN  \A i \in 1..Len(memory.pos) :
              /\ before(i) = "EXITING" => after(i) \notin {"EARLY", "ACTIVE"}
              /\ before(i) = "MOON_BAG" => after(i) \in {"MOON_BAG", "CLOSED"}
              /\ (after(i) = "CLOSED" /\ before(i) # "CLOSED")
                    => /\ CloseStep /\ sw.cur = i
                       /\ memory.pos[i].sold_pct_total >= CloseAtPct * PctScale ]_vars

\* C39: the launch lock is released at the end of every launch attempt:
\* launch_in_progress is true in memory and in the saved document before the
\* launch collaborator is called, it is false in both after the attempt, whether
\* the launch succeeded, was rate-limited or raised, and a cycle that finds the
\* lock set, or that starts within 24 hours of last_launch_timestamp, does not
\* call the launch collaborator.
C39_LaunchLock ==
    [][ /\ (pc # "launching" /\ pc' = "launching")
            => /\ memory'.launch_control.launch_in_progress
               /\ disk'.launch_control.launch_in_progress
               /\ chain'.launches = chain.launches
        /\ chain'.launches # chain.launches
            => /\ pc = "launching"
               /\ disk.launch_control.launch_in_progress
               /\ ~LaunchBlockedBy([memory EXCEPT !.launch_control.launch_in_progress = FALSE],
                                   now)
        /\ ((LaunchBegin \/ LaunchSucceeds \/ RitualRaises \/ LaunchRaises) /\ pc' = "idle")
            => /\ ~memory'.launch_control.launch_in_progress
               /\ ~disk'.launch_control.launch_in_progress
        /\ (pc = "gate" /\ LaunchBlockedBy(memory, now))
            => /\ pc' # "launching"
               /\ chain'.launches = chain.launches ]_vars

\* a launch whose collaborator was called and whose ritual raised: the except
\* clause released the lock and the document was saved
C39_Witness ==
    /\ pc = "idle" /\ chain.launches = 1
    /\ Len(memory.events) >= 2
    /\ memory.events[Len(memory.events) - 1].type = "launch_failed"
    /\ ~memory.launch_control.launch_in_progress
    /\ ~disk.launch_control.launch_in_progress
    /\ disk.launch_control.last_launch_timestamp = now

====
